---- MODULE Spec2Model ----
(***************************************************************************)
(* Model of pkg/init/cmd/service/prepare.go: the mount option translator   *)
(* (parseMountOptions), the filesystem preparer (prepareFilesystem,        *)
(* prepareRO, prepareRW), the namespace binder (bindNS), the interface     *)
(* provisioner (prepareProcess) and the teardown (cleanup, cleanupRO,      *)
(* cleanupRW).                                                             *)
(*                                                                         *)
(* Paths are sequences of components (<<"c", "rootfs">> is /c/rootfs);     *)
(* PathStr renders one as the string the code hands to a system call.      *)
(* Mount flags are integers with the values of golang.org/x/sys/unix.      *)
(***************************************************************************)
EXTENDS Integers, Sequences, FiniteSets, TLC

VARIABLES
    options,    \* parseMountOptions: the argument
    result,     \* parseMountOptions: the returned (flag, data), or NoResult
    runtime,    \* the Runtime config handed to prepareFilesystem
    path,       \* the container state path handed to prepareFilesystem/cleanup
    dirs,       \* the directories that exist (visible through the mounts)
    mtab,       \* the mount table, in mount order
    call,       \* the function running, or the one that returned last
    pc,         \* the position inside the running call, "idle" between calls
    idx,        \* the index of the running range loop
    ret,        \* what the last call returned
    trace,      \* the system calls the current call issued, with outcomes
    probe,      \* the outcome of the os.Stat of lower in the current call
    strategy,   \* the rootfs strategy / teardown the current call selected
    prev,       \* summary of the call before the current one
    calls,      \* number of calls started
    pid,        \* the container process handed to prepareProcess
    files,      \* the regular files that exist
    links,      \* the network links, each in its network namespace
    other       \* the context of the preparation that is not running now

vars == <<options, result, runtime, path, dirs, mtab, call, pc, idx, ret,
          trace, probe, strategy, prev, calls, pid, files, links, other>>

parseVars == <<options, result>>

fsVars == <<runtime, path, dirs, mtab, call, pc, idx, ret, trace, probe,
            strategy, prev, calls>>

procVars == <<pid, files, links, other>>

-----------------------------------------------------------------------------
(* Bounds of the model                                                     *)

\* longest option list drawn from the whole token table
MaxOpts == 2

\* longest option list drawn from CoreTokens
MaxCoreOpts == 3

\* most declared mounts in runtime.Mounts
MaxMounts == 2

\* most directories in runtime.Mkdir
MaxMkdir == 1

\* most calls of prepareFilesystem / cleanup / prepareProcess in one
\* behaviour
MaxCalls == 2

\* most interfaces in runtime.Interfaces
MaxIfaces == 2

-----------------------------------------------------------------------------
(* Mount flags: golang.org/x/sys/unix, linux                               *)

MS_RDONLY == 1

MS_NOSUID == 2

MS_NODEV == 4

MS_NOEXEC == 8

MS_SYNCHRONOUS == 16

MS_REMOUNT == 32

MS_MANDLOCK == 64

MS_DIRSYNC == 128

MS_NOATIME == 1024

MS_NODIRATIME == 2048

MS_BIND == 4096

MS_REC == 16384

MS_PRIVATE == 262144

MS_RELATIME == 2097152

MS_STRICTATIME == 16777216

\* Go's a | b on non-negative ints
RECURSIVE BitOr(_, _)
BitOr(a, b) ==
    IF a = 0 THEN b
    ELSE IF b = 0 THEN a
    ELSE (IF a % 2 = 1 \/ b % 2 = 1 THEN 1 ELSE 0)
         + 2 * BitOr(a \div 2, b \div 2)

\* Go's a &^ b (bit clear) on non-negative ints
RECURSIVE BitAndNot(_, _)
BitAndNot(a, b) ==
    IF a = 0 THEN 0
    ELSE IF b = 0 THEN a
    ELSE (IF a % 2 = 1 /\ b % 2 = 0 THEN 1 ELSE 0)
         + 2 * BitAndNot(a \div 2, b \div 2)

\* Go's a & b on non-negative ints
RECURSIVE BitAnd(_, _)
BitAnd(a, b) ==
    IF a = 0 \/ b = 0 THEN 0
    ELSE (IF a % 2 = 1 /\ b % 2 = 1 THEN 1 ELSE 0)
         + 2 * BitAnd(a \div 2, b \div 2)

-----------------------------------------------------------------------------
(* parseMountOptions                                                       *)

\* the flags table of parseMountOptions with the rbind entry losing MS_REC
flagsNoRec ==
    [async         |-> [clear |-> TRUE,  flag |-> MS_SYNCHRONOUS],
     atime         |-> [clear |-> TRUE,  flag |-> MS_NOATIME],
     bind          |-> [clear |-> FALSE, flag |-> MS_BIND],
     defaults      |-> [clear |-> FALSE, flag |-> 0],
     dev           |-> [clear |-> TRUE,  flag |-> MS_NODEV],
     diratime      |-> [clear |-> TRUE,  flag |-> MS_NODIRATIME],
     dirsync       |-> [clear |-> FALSE, flag |-> MS_DIRSYNC],
     exec          |-> [clear |-> TRUE,  flag |-> MS_NOEXEC],
     mand          |-> [clear |-> FALSE, flag |-> MS_MANDLOCK],
     noatime       |-> [clear |-> FALSE, flag |-> MS_NOATIME],
     nodev         |-> [clear |-> FALSE, flag |-> MS_NODEV],
     nodiratime    |-> [clear |-> FALSE, flag |-> MS_NODIRATIME],
     noexec        |-> [clear |-> FALSE, flag |-> MS_NOEXEC],
     nomand        |-> [clear |-> TRUE,  flag |-> MS_MANDLOCK],
     norelatime    |-> [clear |-> TRUE,  flag |-> MS_RELATIME],
     nostrictatime |-> [clear |-> TRUE,  flag |-> MS_STRICTATIME],
     nosuid        |-> [clear |-> FALSE, flag |-> MS_NOSUID],
     rbind         |-> [clear |-> FALSE, flag |-> MS_BIND],
     relatime      |-> [clear |-> FALSE, flag |-> MS_RELATIME],
     remount       |-> [clear |-> FALSE, flag |-> MS_REMOUNT],
     ro            |-> [clear |-> FALSE, flag |-> MS_RDONLY],
     rw            |-> [clear |-> TRUE,  flag |-> MS_RDONLY],
     strictatime   |-> [clear |-> FALSE, flag |-> MS_STRICTATIME],
     suid          |-> [clear |-> TRUE,  flag |-> MS_NOSUID],
     sync          |-> [clear |-> FALSE, flag |-> MS_SYNCHRONOUS]]

\* the flags table of parseMountOptions: option -> (clear, flag)
flags ==
    [async         |-> [clear |-> TRUE,  flag |-> MS_SYNCHRONOUS],
     atime         |-> [clear |-> TRUE,  flag |-> MS_NOATIME],
     bind          |-> [clear |-> FALSE, flag |-> MS_BIND],
     defaults      |-> [clear |-> FALSE, flag |-> 0],
     dev           |-> [clear |-> TRUE,  flag |-> MS_NODEV],
     diratime      |-> [clear |-> TRUE,  flag |-> MS_NODIRATIME],
     dirsync       |-> [clear |-> FALSE, flag |-> MS_DIRSYNC],
     exec          |-> [clear |-> TRUE,  flag |-> MS_NOEXEC],
     mand          |-> [clear |-> FALSE, flag |-> MS_MANDLOCK],
     noatime       |-> [clear |-> FALSE, flag |-> MS_NOATIME],
     nodev         |-> [clear |-> FALSE, flag |-> MS_NODEV],
     nodiratime    |-> [clear |-> FALSE, flag |-> MS_NODIRATIME],
     noexec        |-> [clear |-> FALSE, flag |-> MS_NOEXEC],
     nomand        |-> [clear |-> TRUE,  flag |-> MS_MANDLOCK],
     norelatime    |-> [clear |-> TRUE,  flag |-> MS_RELATIME],
     nostrictatime |-> [clear |-> TRUE,  flag |-> MS_STRICTATIME],
     nosuid        |-> [clear |-> FALSE, flag |-> MS_NOSUID],
     rbind         |-> [clear |-> FALSE, flag |-> BitOr(MS_BIND, MS_REC)],
     relatime      |-> [clear |-> FALSE, flag |-> MS_RELATIME],
     remount       |-> [clear |-> FALSE, flag |-> MS_REMOUNT],
     ro            |-> [clear |-> FALSE, flag |-> MS_RDONLY],
     rw            |-> [clear |-> TRUE,  flag |-> MS_RDONLY],
     strictatime   |-> [clear |-> FALSE, flag |-> MS_STRICTATIME],
     suid          |-> [clear |-> TRUE,  flag |-> MS_NOSUID],
     sync          |-> [clear |-> FALSE, flag |-> MS_SYNCHRONOUS]]

\* strings.Join(elems, sep)
RECURSIVE StringsJoin(_, _)
StringsJoin(elems, sep) ==
    IF Len(elems) = 0 THEN ""
    ELSE IF Len(elems) = 1 THEN elems[1]
    ELSE elems[1] \o sep \o StringsJoin(Tail(elems), sep)

\* the body of the range loop of parseMountOptions, on the locals
\* flag and data
parseOption(acc, o) ==
    IF o \in DOMAIN flags /\ flags[o].flag # 0
    THEN LET f == flags[o]
         IN  [flag |-> IF f.clear THEN BitAndNot(acc.flag, f.flag)
                       ELSE BitOr(acc.flag, f.flag),
              data |-> acc.data]
    ELSE [flag |-> acc.flag, data |-> Append(acc.data, o)]

\* the range loop taking the options from the last to the first
RECURSIVE parseLoopBackwards(_, _, _)
parseLoopBackwards(opts, i, acc) ==
    IF i > Len(opts) THEN acc
    ELSE parseLoopBackwards(opts, i + 1,
                            parseOption(acc, opts[Len(opts) + 1 - i]))

\* the range loop of parseMountOptions from option i on
RECURSIVE parseLoop(_, _, _)
parseLoop(opts, i, acc) ==
    IF i > Len(opts) THEN acc
    ELSE parseLoop(opts, i + 1, parseOption(acc, opts[i]))

\* parseMountOptions dropping the options that are not flags
parseMountOptionsNoData(opts) ==
    LET acc == parseLoop(opts, 1, [flag |-> 0, data |-> <<>>])
    IN  [flag |-> acc.flag, data |-> ""]

\* parseMountOptions(options) (int, string)
parseMountOptions(opts) ==
    LET acc == parseLoop(opts, 1, [flag |-> 0, data |-> <<>>])
    IN  [flag |-> acc.flag, data |-> StringsJoin(acc.data, ",")]

-----------------------------------------------------------------------------
(* The inputs of parseMountOptions                                         *)

\* tokens no entry of the flags table names
UnknownTokens == {"foo=bar", "size=10%"}

\* every token of the flags table and the unknown ones
Tokens == DOMAIN flags \cup UnknownTokens

\* the tokens of the longer option lists
CoreTokens == {"ro", "rw", "noexec", "nodev", "defaults", "foo=bar"}

BoundedSeq(S, n) == UNION {[1..k -> S] : k \in 0..n}

OptionLists == BoundedSeq(Tokens, MaxOpts) \cup BoundedSeq(CoreTokens, MaxCoreOpts)

\* result before parseMountOptions has returned
NoResult == [flag |-> -1, data |-> ""]

-----------------------------------------------------------------------------
(* Paths                                                                   *)

\* filepath.Join(path, name)
FilepathJoin(p, name) == Append(p, name)

\* the string of a path, as handed to a system call or formatted with %s
RECURSIVE PathStr(_)
PathStr(p) ==
    IF Len(p) = 0 THEN "" ELSE "/" \o Head(p) \o PathStr(Tail(p))

IsPrefix(p, q) == Len(p) <= Len(q) /\ SubSeq(q, 1, Len(p)) = p

\* the directories of D below p, p excluded
StrictlyUnder(D, p) == {d \in D : IsPrefix(p, d) /\ d # p}

\* p and its ancestors
Prefixes(p) == {SubSeq(p, 1, k) : k \in 1..Len(p)}

-----------------------------------------------------------------------------
(* The operating system: what one system call can do to the directories D  *)
(* and the mount table M. Every call can fail for a reason the model does   *)
(* not track (EPERM, ENOMEM, EIO ...): then it changes nothing.             *)

Outcome(res, D, M) == [res |-> res, dirs |-> D, mtab |-> M]

\* one system call as the trace records it
Sys(op, p, source, fstype, fl, data, res) ==
    [op |-> op, path |-> p, source |-> source, fstype |-> fstype,
     flags |-> fl, data |-> data, res |-> res]

MountTargets(M) == {M[k].target : k \in 1..Len(M)}

IsMountPoint(M, p) == p \in MountTargets(M)

\* index of the topmost mount at p
TopMount(M, p) ==
    CHOOSE k \in 1..Len(M) :
        /\ M[k].target = p
        /\ \A j \in (k + 1)..Len(M) : M[j].target # p

RemoveAt(M, k) == SubSeq(M, 1, k - 1) \o SubSeq(M, k + 1, Len(M))

\* os.Stat(p): "ok", "notexist" (os.IsNotExist) or "err" (any other error)
StatOutcomes(D, p) == {"err"} \cup {IF p \in D THEN "ok" ELSE "notexist"}

\* os.MkdirAll(p, 0755)
MkdirAllOutcomes(D, M, p) ==
    {Outcome("err", D, M), Outcome("ok", D \cup Prefixes(p), M)}

\* os.Mkdir(p, 0755): EEXIST when p exists, ENOENT when its parent does not
MkdirOutcomes(D, M, p) ==
    {Outcome("err", D, M)} \cup
    (IF p \notin D /\ SubSeq(p, 1, Len(p) - 1) \in D
     THEN {Outcome("ok", D \cup {p}, M)} ELSE {})

\* the directories below from, seen below to
Relocate(D, from, to) ==
    {to \o SubSeq(d, Len(from) + 1, Len(d)) : d \in StrictlyUnder(D, from)}

\* strings.HasPrefix(str, pre)
HasPrefixStr(str, pre) ==
    Len(str) >= Len(pre) /\ SubSeq(str, 1, Len(pre)) = pre

\* the (lowerdir, upperdir, workdir) directories the overlay data names,
\* read from the left; none when the data is not of that form or names a
\* missing directory
OverlayLayers(D, data) ==
    UNION {UNION {{<<l, u, w>> :
                      w \in {d \in D :
                                data = "lowerdir=" \o PathStr(l)
                                           \o ",upperdir=" \o PathStr(u)
                                           \o ",workdir=" \o PathStr(d)}} :
                  u \in {d \in D :
                            HasPrefixStr(data,
                                "lowerdir=" \o PathStr(l) \o ",upperdir="
                                    \o PathStr(d) \o ",workdir=")}} :
           l \in {d \in D :
                     HasPrefixStr(data,
                         "lowerdir=" \o PathStr(d) \o ",upperdir=")}}

NewMount(target, source, fstype, fl, data, bind, hidden) ==
    [target |-> target, source |-> source, fstype |-> fstype, flags |-> fl,
     data |-> data, bind |-> bind, hidden |-> hidden]

\* unix.Mount(source, target, fstype, flags, data): the target must exist;
\* MS_REMOUNT changes the flags of the topmost mount at the target; MS_BIND
\* (only ever of a directory onto itself here) shows the same directories;
\* an overlay shows the directories of its lower and upper layers and needs
\* its three directories to exist; any other mount puts a new, empty
\* filesystem over the target
MountOutcomes(D, M, source, target, fstype, fl, data) ==
    {Outcome("err", D, M)} \cup
    (IF target \notin D THEN {}
     ELSE IF BitAnd(fl, MS_REMOUNT) # 0
     THEN IF IsMountPoint(M, target)
          THEN {Outcome("ok", D,
                        [M EXCEPT ![TopMount(M, target)].flags = fl])}
          ELSE {}
     ELSE IF BitAnd(fl, MS_BIND) # 0
     THEN {Outcome("ok", D,
                   Append(M, NewMount(target, source, fstype, fl, data,
                                      TRUE, {})))}
     ELSE IF fstype = "overlay"
     THEN {Outcome("ok",
                   (D \ StrictlyUnder(D, target))
                       \cup Relocate(D, l[1], target)
                       \cup Relocate(D, l[2], target),
                   Append(M, NewMount(target, source, fstype, fl, data,
                                      FALSE, StrictlyUnder(D, target)))) :
               l \in OverlayLayers(D, data)}
     ELSE {Outcome("ok", D \ StrictlyUnder(D, target),
                   Append(M, NewMount(target, source, fstype, fl, data,
                                      FALSE, StrictlyUnder(D, target))))})

\* unix.Unmount(target, 0): EINVAL when target is no mount point
UnmountOutcomes(D, M, target) ==
    {Outcome("err", D, M)} \cup
    (IF ~IsMountPoint(M, target) THEN {}
     ELSE LET k == TopMount(M, target)
          IN  {Outcome("ok",
                       IF M[k].bind THEN D
                       ELSE (D \ StrictlyUnder(D, target)) \cup M[k].hidden,
                       RemoveAt(M, k))})

\* os.RemoveAll(p): removes what it can below p and p itself; a mount point
\* and its ancestors stay (EBUSY), and then RemoveAll reports an error
RemoveAllOutcomes(D, M, p) ==
    LET busy == UNION {Prefixes(t) : t \in MountTargets(M)}
        left == {d \in D : ~IsPrefix(p, d) \/ d \in busy}
    IN  {Outcome("err", D, M),
         Outcome(IF \E d \in left : IsPrefix(p, d) THEN "err" ELSE "ok",
                 left, M)}

-----------------------------------------------------------------------------
(* The configurations and the container state directories                  *)

StatePaths == {<<"c">>}

\* specs.Mount values runtime.Mounts is drawn from
MountSpecs ==
    {[Destination |-> <<"var", "lib">>, Type |-> "tmpfs", Source |-> "tmpfs",
      Options |-> <<"rw", "nodev", "size=50%">>],
     [Destination |-> <<"var">>, Type |-> "ext4", Source |-> "/dev/sda1",
      Options |-> <<"ro", "defaults">>]}

\* directories runtime.Mkdir is drawn from
MkdirDirs == {<<"var", "lib", "x">>}

Runtimes ==
    [Mounts : BoundedSeq(MountSpecs, MaxMounts),
     Mkdir  : BoundedSeq(MkdirDirs, MaxMkdir)]

\* what a container state directory can hold before the first call: rootfs
\* with its content, lower or not, tmp or not, tmp with a stale upper that
\* holds content or not
InitialDirs(p) ==
    {{p, FilepathJoin(p, "rootfs"),
      FilepathJoin(FilepathJoin(p, "rootfs"), "bin")} \cup l \cup t :
        l \in {{}, {FilepathJoin(p, "lower"),
                    FilepathJoin(FilepathJoin(p, "lower"), "bin")}},
        t \in {{}, {FilepathJoin(p, "tmp")},
               {FilepathJoin(p, "tmp"),
                FilepathJoin(FilepathJoin(p, "tmp"), "upper"),
                FilepathJoin(FilepathJoin(FilepathJoin(p, "tmp"), "upper"),
                             "old")}}}

\* prev before any call
NoCall == [call |-> "none", probe |-> "none", strategy |-> "none",
           ret |-> "none"]

-----------------------------------------------------------------------------
(* Control flow shared by the steps                                        *)

Pos(p, i) == [pc |-> p, idx |-> i, ret |-> "running"]

\* return r
Done(r) == [pc |-> "idle", idx |-> 0, ret |-> r]

\* if err != nil { ... } without the return
failFastFallThrough(res, next) == next

\* if err != nil { return err }: go on to next only when the call succeeded
failFast(res, next) == IF res = "ok" THEN next ELSE Done("err")

\* _ = f(): giving up at the first step that fails
discardErrStopping(res, next) == IF res = "ok" THEN next ELSE Done("void")

\* _ = f(): the error is dropped and the next statement runs
discardErr(res, next) == next

\* the range over runtime.Mkdir from index j on, then the probe of lower
MkdirFrom(rt, j) ==
    IF j <= Len(rt.Mkdir) THEN Pos("mkdir_mkdirall", j) ELSE Pos("stat", 0)

\* the range over runtime.Mounts from index i on, then the Mkdir range
MountsFrom(rt, i) ==
    IF i <= Len(rt.Mounts) THEN Pos("mount_mkdirall", i)
    ELSE MkdirFrom(rt, 1)

\* prepareFilesystem's choice taking any stat error for a missing lower
prepareStrategyAnyErr(res) ==
    IF res # "ok" THEN "ro" ELSE "rw"

\* prepareFilesystem's choice after os.Stat(lower): prepareRO when lower
\* does not exist, return err on another error, prepareRW otherwise
prepareStrategy(res) ==
    IF res # "ok"
    THEN IF res = "notexist" THEN "ro" ELSE "none"
    ELSE "rw"

\* cleanup's choice with the two branches exchanged
cleanupStrategySwapped(res) ==
    IF res # "ok" THEN "rw" ELSE "ro"

\* cleanup's choice after os.Stat(lower): cleanupRO on any error
cleanupStrategy(res) ==
    IF res # "ok" THEN "ro" ELSE "rw"

-----------------------------------------------------------------------------
(* The system calls of each call site, result not yet known                *)

Entry(c, res) == [c EXCEPT !.res = res]

\* os.MkdirAll(mount.Destination, mode)
mountMkdirAll(mount) ==
    Sys("MkdirAll", mount.Destination, "", "", 0, "", "?")

\* unix.Mount(mount.Source, mount.Destination, mount.Type, opts, data)
mountMount(mount) ==
    LET parsed == parseMountOptions(mount.Options)
    IN  Sys("Mount", mount.Destination, mount.Source, mount.Type,
            parsed.flag, parsed.data, "?")

\* os.MkdirAll(dir, mode)
mkdirMkdirAll(dir) == Sys("MkdirAll", dir, "", "", 0, "", "?")

\* os.Stat(filepath.Join(path, "lower"))
statLower(p) == Sys("Stat", FilepathJoin(p, "lower"), "", "", 0, "", "?")

\* prepareRO binding rootfs with the state path as the source
roMountFromPath(p) ==
    Sys("Mount", FilepathJoin(p, "rootfs"), PathStr(p), "", MS_BIND, "", "?")

\* unix.Mount(rootfs, rootfs, "", unix.MS_BIND, "")
roMount(p) ==
    LET rootfs == FilepathJoin(p, "rootfs")
    IN  Sys("Mount", rootfs, PathStr(rootfs), "", MS_BIND, "", "?")

\* tmp bound onto itself in place of a new tmpfs
rwTmpfsBind(p) ==
    Sys("Mount", FilepathJoin(p, "tmp"), "tmpfs", "tmpfs", MS_BIND,
        "size=10%", "?")

\* unix.Mount("tmpfs", tmp, "tmpfs", 0, "size=10%")
rwTmpfs(p) ==
    Sys("Mount", FilepathJoin(p, "tmp"), "tmpfs", "tmpfs", 0, "size=10%", "?")

\* unix.Mount("", tmp, "", unix.MS_REMOUNT|unix.MS_PRIVATE, "")
rwPrivate(p) ==
    Sys("Mount", FilepathJoin(p, "tmp"), "", "",
        BitOr(MS_REMOUNT, MS_PRIVATE), "", "?")

\* os.Mkdir of an upper directory that is not under the state path
rwUpperShared(p) == Sys("Mkdir", <<"tmp", "upper">>, "", "", 0, "", "?")

\* os.Mkdir(upper, 0755)
rwUpper(p) ==
    Sys("Mkdir", FilepathJoin(FilepathJoin(p, "tmp"), "upper"),
        "", "", 0, "", "?")

\* os.Mkdir(work, 0755)
rwWork(p) ==
    Sys("Mkdir", FilepathJoin(FilepathJoin(p, "tmp"), "work"),
        "", "", 0, "", "?")

\* the overlay options with upper and work exchanged
overlayOptSwapped(lower, upper, work) ==
    "lowerdir=" \o PathStr(lower) \o ",upperdir=" \o PathStr(work)
        \o ",workdir=" \o PathStr(upper)

\* fmt.Sprintf("lowerdir=%s,upperdir=%s,workdir=%s", lower, upper, work)
overlayOpt(lower, upper, work) ==
    "lowerdir=" \o PathStr(lower) \o ",upperdir=" \o PathStr(upper)
        \o ",workdir=" \o PathStr(work)

\* unix.Mount("overlay", rootfs, "overlay", 0, opt)
rwOverlay(p) ==
    LET tmp == FilepathJoin(p, "tmp")
    IN  Sys("Mount", FilepathJoin(p, "rootfs"), "overlay", "overlay", 0,
            overlayOpt(FilepathJoin(p, "lower"), FilepathJoin(tmp, "upper"),
                       FilepathJoin(tmp, "work")), "?")

\* unix.Unmount(rootfs, 0)
unmountRootfs(p) ==
    Sys("Unmount", FilepathJoin(p, "rootfs"), "", "", 0, "", "?")

\* os.RemoveAll(rootfs)
removeRootfs(p) ==
    Sys("RemoveAll", FilepathJoin(p, "rootfs"), "", "", 0, "", "?")

\* os.RemoveAll of the directory that holds tmp
removeTmpParent(p) ==
    Sys("RemoveAll", p, "", "", 0, "", "?")

\* os.RemoveAll(tmp)
removeTmp(p) ==
    Sys("RemoveAll", FilepathJoin(p, "tmp"), "", "", 0, "", "?")

\* the last unmount of cleanupRW aimed at the upper directory
unmountTmpUpper(p) ==
    Sys("Unmount", FilepathJoin(FilepathJoin(p, "tmp"), "upper"),
        "", "", 0, "", "?")

\* unix.Unmount(tmp, 0)
unmountTmp(p) ==
    Sys("Unmount", FilepathJoin(p, "tmp"), "", "", 0, "", "?")

\* what the operating system can answer to the call c
SysOutcomes(c, D, M) ==
    CASE c.op = "Stat"      -> {Outcome(r, D, M) : r \in StatOutcomes(D, c.path)}
      [] c.op = "MkdirAll"  -> MkdirAllOutcomes(D, M, c.path)
      [] c.op = "Mkdir"     -> MkdirOutcomes(D, M, c.path)
      [] c.op = "Mount"     -> MountOutcomes(D, M, c.source, c.path, c.fstype,
                                             c.flags, c.data)
      [] c.op = "Unmount"   -> UnmountOutcomes(D, M, c.path)
      [] c.op = "RemoveAll" -> RemoveAllOutcomes(D, M, c.path)

-----------------------------------------------------------------------------
(* Steps. Each step of a call issues one system call, the operating system *)
(* picks its outcome, and the code's handling of the error decides where   *)
(* the call goes on.                                                       *)

Issue(c, o) ==
    /\ trace' = Append(trace, Entry(c, o.res))
    /\ dirs' = o.dirs
    /\ mtab' = o.mtab

Goto(n) ==
    /\ pc' = n.pc
    /\ idx' = n.idx
    /\ ret' = n.ret

\* the function fn starts at position first
Begin(fn, first) ==
    /\ pc = "idle"
    /\ call' = fn
    /\ calls' = calls + 1
    /\ prev' = [call |-> call, probe |-> probe, strategy |-> strategy,
                ret |-> ret]
    /\ trace' = <<>>
    /\ probe' = "none"
    /\ strategy' = "none"
    /\ Goto(first)
    /\ UNCHANGED <<options, result, runtime, path, dirs, mtab, procVars>>

\* a caller starts the function fn at position first, one of the MaxCalls
\* calls of a behaviour
Enter(fn, first) ==
    /\ calls < MaxCalls
    /\ Begin(fn, first)

\* a step that issues c and goes on as after(result) says
FailFastStep(at, c, next) ==
    /\ pc = at
    /\ \E o \in SysOutcomes(c, dirs, mtab) :
        /\ Issue(c, o)
        /\ Goto(failFast(o.res, next))
    /\ UNCHANGED <<options, result, runtime, path, call, probe, strategy,
                   prev, calls, procVars>>

DiscardStep(at, c, next) ==
    /\ pc = at
    /\ \E o \in SysOutcomes(c, dirs, mtab) :
        /\ Issue(c, o)
        /\ Goto(discardErr(o.res, next))
    /\ UNCHANGED <<options, result, runtime, path, call, probe, strategy,
                   prev, calls, procVars>>

\* func prepareFilesystem(path string, runtime Runtime) error: entry
prepareFilesystem == Enter("prepareFilesystem", MountsFrom(runtime, 1))

\* for _, mount := range runtime.Mounts: os.MkdirAll(mount.Destination)
prepareFilesystem_MountMkdirAll ==
    /\ pc = "mount_mkdirall"
    /\ FailFastStep("mount_mkdirall", mountMkdirAll(runtime.Mounts[idx]),
                    Pos("mount_mount", idx))

\* for _, mount := range runtime.Mounts: parseMountOptions, unix.Mount
prepareFilesystem_Mount ==
    /\ pc = "mount_mount"
    /\ FailFastStep("mount_mount", mountMount(runtime.Mounts[idx]),
                    MountsFrom(runtime, idx + 1))

\* for _, dir := range runtime.Mkdir: os.MkdirAll(dir)
prepareFilesystem_Mkdir ==
    /\ pc = "mkdir_mkdirall"
    /\ FailFastStep("mkdir_mkdirall", mkdirMkdirAll(runtime.Mkdir[idx]),
                    MkdirFrom(runtime, idx + 1))

\* os.Stat(lower) and the choice of the rootfs strategy
prepareFilesystem_Stat ==
    /\ pc = "stat"
    /\ \E o \in SysOutcomes(statLower(path), dirs, mtab) :
        /\ Issue(statLower(path), o)
        /\ probe' = o.res
        /\ strategy' = prepareStrategy(o.res)
        /\ Goto(CASE prepareStrategy(o.res) = "ro" -> Pos("ro_mount", 0)
                  [] prepareStrategy(o.res) = "rw" -> Pos("rw_tmpfs", 0)
                  [] OTHER -> Done("err"))
    /\ UNCHANGED <<options, result, runtime, path, call, prev, calls,
                   procVars>>

\* func prepareRO(path string) error
prepareRO == FailFastStep("ro_mount", roMount(path), Done("nil"))

\* prepareRW: mount a tmpfs on tmp
prepareRW_Tmpfs == FailFastStep("rw_tmpfs", rwTmpfs(path), Pos("rw_private", 0))

\* prepareRW: make it private
prepareRW_Private ==
    FailFastStep("rw_private", rwPrivate(path), Pos("rw_upper", 0))

\* prepareRW: os.Mkdir(upper)
prepareRW_Upper == FailFastStep("rw_upper", rwUpper(path), Pos("rw_work", 0))

\* prepareRW: os.Mkdir(work)
prepareRW_Work == FailFastStep("rw_work", rwWork(path), Pos("rw_overlay", 0))

\* prepareRW: mount the overlay on rootfs
prepareRW_Overlay == FailFastStep("rw_overlay", rwOverlay(path), Done("nil"))

\* func cleanup(path string): entry
cleanup == Enter("cleanup", Pos("cleanup_stat", 0))

\* cleanup taking the teardown of the strategy the last prepareFilesystem
\* used, whatever the probe says
cleanup_StatPersisted ==
    /\ pc = "cleanup_stat"
    /\ \E o \in SysOutcomes(statLower(path), dirs, mtab) :
        /\ Issue(statLower(path), o)
        /\ probe' = o.res
        /\ strategy' = IF prev.strategy \in {"ro", "rw"} THEN prev.strategy
                       ELSE cleanupStrategy(o.res)
        /\ Goto(IF strategy' = "ro" THEN Pos("cro_unmount", 0)
                ELSE Pos("crw_remove_rootfs", 0))
    /\ UNCHANGED <<options, result, runtime, path, call, prev, calls,
                   procVars>>

\* cleanup: os.Stat(lower) and the choice of the teardown
cleanup_Stat ==
    /\ pc = "cleanup_stat"
    /\ \E o \in SysOutcomes(statLower(path), dirs, mtab) :
        /\ Issue(statLower(path), o)
        /\ probe' = o.res
        /\ strategy' = cleanupStrategy(o.res)
        /\ Goto(IF cleanupStrategy(o.res) = "ro" THEN Pos("cro_unmount", 0)
                ELSE Pos("crw_remove_rootfs", 0))
    /\ UNCHANGED <<options, result, runtime, path, call, prev, calls,
                   procVars>>

\* func cleanupRO(path string)
cleanupRO == DiscardStep("cro_unmount", unmountRootfs(path), Done("void"))

\* cleanupRW: _ = os.RemoveAll(rootfs)
cleanupRW_RemoveRootfs ==
    DiscardStep("crw_remove_rootfs", removeRootfs(path),
                Pos("crw_unmount_rootfs", 0))

\* cleanupRW: _ = unix.Unmount(rootfs, 0)
cleanupRW_UnmountRootfs ==
    DiscardStep("crw_unmount_rootfs", unmountRootfs(path),
                Pos("crw_remove_tmp", 0))

\* cleanupRW returning after os.RemoveAll(tmp)
cleanupRW_RemoveTmpLast ==
    DiscardStep("crw_remove_tmp", removeTmp(path), Done("void"))

\* cleanupRW: _ = os.RemoveAll(tmp)
cleanupRW_RemoveTmp ==
    DiscardStep("crw_remove_tmp", removeTmp(path), Pos("crw_unmount_tmp", 0))

\* cleanupRW: _ = unix.Unmount(tmp, 0)
cleanupRW_UnmountTmp ==
    DiscardStep("crw_unmount_tmp", unmountTmp(path), Done("void"))

-----------------------------------------------------------------------------
(* The namespace binder and the interface provisioner: network links,      *)
(* regular files and what the netlink and file calls can do to them        *)

\* the network namespace netlink works in when LinkAttrs.Namespace is nil:
\* the one of the caller, the root namespace
RootNs == "root"

\* netlink.NsPid(pid): the network namespace of the process pid
NsPid(p) == "pid" \o ToString(p)

\* fmt.Sprintf("/proc/%d/ns/%s", pid, ns)
nsSource(ns, p) == "/proc/" \o ToString(p) \o "/ns/" \o ns

\* filepath.Dir(path)
FilepathDir(p) == SubSeq(p, 1, Len(p) - 1)

ProcOutcome(res, D, F, M, L) ==
    [res |-> res, dirs |-> D, files |-> F, mtab |-> M, links |-> L]

\* one netlink call as the trace records it
Net(op, name, ns, type, peer, res) ==
    [op |-> op, name |-> name, ns |-> ns, type |-> type, peer |-> peer,
     res |-> res]

\* one invocation of bindNS as the trace records it
BindCall(ns, p, process) ==
    [op |-> "bindNS", ns |-> ns, path |-> p, pid |-> process, res |-> "call"]

NewLink(name, ns, type) == [name |-> name, ns |-> ns, type |-> type]

LinkNames(L, ns) == {l.name : l \in {x \in L : x.ns = ns}}

\* netlink.LinkAdd(link): EEXIST when the namespace holds the name already;
\* a veth pair puts its peer end into the namespace of the caller
LinkAddOutcomes(D, F, M, L, c) ==
    {ProcOutcome("err", D, F, M, L)} \cup
    (IF c.name = "" \/ c.name \in LinkNames(L, c.ns) THEN {}
     ELSE IF c.type = "veth"
     THEN IF c.peer = "" \/ c.peer \in LinkNames(L, RootNs)
             \/ (c.peer = c.name /\ c.ns = RootNs)
          THEN {}
          ELSE {ProcOutcome("ok", D, F, M,
                            L \cup {NewLink(c.name, c.ns, c.type),
                                    NewLink(c.peer, RootNs, c.type)})}
     ELSE {ProcOutcome("ok", D, F, M,
                       L \cup {NewLink(c.name, c.ns, c.type)})})

\* netlink.LinkByName(name): looks in the namespace of the caller
LinkByNameOutcomes(D, F, M, L, c) ==
    {ProcOutcome("err", D, F, M, L)} \cup
    (IF c.name \in LinkNames(L, RootNs)
     THEN {ProcOutcome("ok", D, F, M, L)} ELSE {})

\* netlink.LinkSetNsPid(link, pid): moves the caller's link of that name
\* into the namespace of pid; EEXIST when that one holds the name already
LinkSetNsPidOutcomes(D, F, M, L, c) ==
    {ProcOutcome("err", D, F, M, L)} \cup
    (IF c.name \in LinkNames(L, RootNs) /\ c.name \notin LinkNames(L, c.ns)
     THEN {ProcOutcome("ok", D, F, M,
                       {IF l.name = c.name /\ l.ns = RootNs
                        THEN [l EXCEPT !.ns = c.ns] ELSE l : l \in L})}
     ELSE {})

\* os.MkdirAll(p, 0755) where regular files exist: ENOTDIR when p or one of
\* its ancestors is a regular file
MkdirAllFileOutcomes(D, F, M, L, p) ==
    {ProcOutcome("err", D, F, M, L)} \cup
    (IF Prefixes(p) \cap F # {} THEN {}
     ELSE {ProcOutcome("ok", D \cup Prefixes(p), F, M, L)})

\* os.Create(p): EISDIR when p is a directory, ENOENT/ENOTDIR when its
\* parent is no directory; an existing file is truncated
CreateOutcomes(D, F, M, L, p) ==
    {ProcOutcome("err", D, F, M, L)} \cup
    (IF p = <<>> \/ p \in D \/ (Len(p) > 1 /\ FilepathDir(p) \notin D)
     THEN {}
     ELSE {ProcOutcome("ok", D, F \cup {p}, M, L)})

\* fi.Close()
CloseOutcomes(D, F, M, L) ==
    {ProcOutcome("err", D, F, M, L), ProcOutcome("ok", D, F, M, L)}

\* unix.Mount("/proc/<pid>/ns/<ns>", target, "", unix.MS_BIND, ""): a
\* namespace file binds onto an existing regular file only
NsMountOutcomes(D, F, M, L, source, target, fl) ==
    {ProcOutcome("err", D, F, M, L)} \cup
    (IF target \in F /\ BitAnd(fl, MS_BIND) # 0
     THEN {ProcOutcome("ok", D, F,
                       Append(M, NewMount(target, source, "", fl, "", TRUE,
                                          {})), L)}
     ELSE {})

\* what the operating system can answer to the call c of prepareProcess
ProcOutcomes(c, D, F, M, L) ==
    CASE c.op = "LinkAdd"      -> LinkAddOutcomes(D, F, M, L, c)
      [] c.op = "LinkByName"   -> LinkByNameOutcomes(D, F, M, L, c)
      [] c.op = "LinkSetNsPid" -> LinkSetNsPidOutcomes(D, F, M, L, c)
      [] c.op = "MkdirAll"     -> MkdirAllFileOutcomes(D, F, M, L, c.path)
      [] c.op = "Create"       -> CreateOutcomes(D, F, M, L, c.path)
      [] c.op = "Close"        -> CloseOutcomes(D, F, M, L)
      [] c.op = "Mount"        -> NsMountOutcomes(D, F, M, L, c.source,
                                                  c.path, c.flags)

-----------------------------------------------------------------------------
(* The configurations of prepareProcess                                    *)

Pids == {7, 12}

Interface(name, add, peer, createInRoot) ==
    [Name |-> name, Add |-> add, Peer |-> peer, CreateInRoot |-> createInRoot]

\* Interface values runtime.Interfaces is drawn from
InterfaceSpecs ==
    {Interface("", "veth", "p0", TRUE),
     Interface("eth0", "", "", FALSE),
     Interface("eth0", "", "", TRUE),
     Interface("veth0", "veth", "p0", FALSE),
     Interface("veth1", "", "p1", FALSE),
     Interface("veth2", "veth", "", TRUE),
     Interface("dummy0", "dummy", "", FALSE),
     Interface("dummy0", "dummy", "", TRUE),
     Interface("br0", "bridge", "p0", FALSE),
     Interface("p0", "", "", FALSE)}

\* the namespace kinds, in the order of the binds list
NsKinds == <<"cgroup", "ipc", "mnt", "net", "pid", "user", "uts">>

\* the host path a configuration binds the namespace ns at, "" for none
BindPath(ns, S) == IF ns \in S THEN <<"run", "ns", ns>> ELSE <<>>

\* Namespaces values runtime.BindNS is drawn from: the kinds of S are bound
BindNSOf(S) ==
    [Cgroup |-> BindPath("cgroup", S), Ipc |-> BindPath("ipc", S),
     Mnt |-> BindPath("mnt", S), Net |-> BindPath("net", S),
     Pid |-> BindPath("pid", S), User |-> BindPath("user", S),
     Uts |-> BindPath("uts", S)]

BindSets ==
    {{}, {"net"}, {"cgroup", "net", "uts"},
     {"cgroup", "ipc", "mnt", "net", "pid", "user", "uts"}}

ProcessRuntimes ==
    [Mounts     : {<<>>},
     Mkdir      : {<<>>},
     Interfaces : BoundedSeq(InterfaceSpecs, MaxIfaces),
     BindNS     : {BindNSOf(S) : S \in BindSets}]

\* what the host holds before prepareProcess: nothing, or /run/ns with a
\* directory at the net path and a file left at the uts path
InitialHosts ==
    {[dirs |-> {}, files |-> {}],
     [dirs |-> {<<"run">>, <<"run", "ns">>, <<"run", "ns", "net">>},
      files |-> {<<"run", "ns", "uts">>}]}

\* the links of the root namespace before prepareProcess
InitialLinks ==
    {{},
     {NewLink("eth0", RootNs, "device"), NewLink("dummy0", RootNs, "dummy")}}

\* other when one preparation runs on its own
NoOther == [pc |-> "absent"]

-----------------------------------------------------------------------------
(* prepareProcess and bindNS                                               *)

\* if iface.Peer != "" && iface.Add == "" { iface.Add = "veth" }
normalise(iface) ==
    IF iface.Peer # "" /\ iface.Add = ""
    THEN [iface EXCEPT !.Add = "veth"] ELSE iface

\* if iface.CreateInRoot { ns = nil; move = true }
createInRootFlagOnly(iface) == iface.CreateInRoot

\* if iface.CreateInRoot || iface.Add == "veth" { ns = nil; move = true }
createInRoot(iface) == iface.CreateInRoot \/ iface.Add = "veth"

\* netlink.LinkAdd(link) of the (normalised) interface
linkAdd(iface, process) ==
    Net("LinkAdd", iface.Name,
        IF createInRoot(iface) THEN RootNs ELSE NsPid(process),
        iface.Add, IF iface.Add = "veth" THEN iface.Peer ELSE "", "?")

\* netlink.LinkByName(iface.Name)
linkByName(iface) == Net("LinkByName", iface.Name, RootNs, "", "", "?")

\* the move applied to the peer name of the interface
linkSetNsPidPeer(iface, process) ==
    Net("LinkSetNsPid", iface.Peer, NsPid(process), "", "", "?")

\* netlink.LinkSetNsPid(link, int(pid))
linkSetNsPid(iface, process) ==
    Net("LinkSetNsPid", iface.Name, NsPid(process), "", "", "?")

\* one iteration of the interface loop without its two validations
ifaceStartUnchecked(iface, i) ==
    IF normalise(iface).Add # "" THEN Pos("link_add", i)
    ELSE Pos("link_byname", i)

\* one iteration of the interface loop up to its first netlink call: the
\* name test, the normalisation, the veth peer test
ifaceStart(iface, i) ==
    IF iface.Name = "" THEN Done("err")
    ELSE IF normalise(iface).Add # ""
    THEN IF normalise(iface).Add = "veth" /\ normalise(iface).Peer = ""
         THEN Done("err")
         ELSE Pos("link_add", i)
    ELSE Pos("link_byname", i)

\* the binds list with the paths of ipc and mnt exchanged
bindsSwapped(rt) ==
    <<[ns |-> "cgroup", path |-> rt.BindNS.Cgroup],
      [ns |-> "ipc", path |-> rt.BindNS.Mnt],
      [ns |-> "mnt", path |-> rt.BindNS.Ipc],
      [ns |-> "net", path |-> rt.BindNS.Net],
      [ns |-> "pid", path |-> rt.BindNS.Pid],
      [ns |-> "user", path |-> rt.BindNS.User],
      [ns |-> "uts", path |-> rt.BindNS.Uts]>>

\* the binds list of prepareProcess
binds(rt) ==
    <<[ns |-> "cgroup", path |-> rt.BindNS.Cgroup],
      [ns |-> "ipc", path |-> rt.BindNS.Ipc],
      [ns |-> "mnt", path |-> rt.BindNS.Mnt],
      [ns |-> "net", path |-> rt.BindNS.Net],
      [ns |-> "pid", path |-> rt.BindNS.Pid],
      [ns |-> "user", path |-> rt.BindNS.User],
      [ns |-> "uts", path |-> rt.BindNS.Uts]>>

\* the range over binds from index j on, then return nil
BindsFrom(rt, j) ==
    IF j <= Len(binds(rt)) THEN Pos("bind", j) ELSE Done("nil")

\* the range over runtime.Interfaces from index i on, then the binds
IfacesFrom(rt, i) ==
    IF i <= Len(rt.Interfaces) THEN ifaceStart(rt.Interfaces[i], i)
    ELSE BindsFrom(rt, 1)

\* the range over runtime.Interfaces going on after an iteration that
\* should have moved its link
afterLinkAddNoMove(rt, iface, i) == IfacesFrom(rt, i + 1)

\* after netlink.LinkAdd: if move { netlink.LinkSetNsPid } or the next
\* iteration
afterLinkAdd(rt, iface, i) ==
    IF createInRoot(iface) THEN Pos("link_move", i)
    ELSE IfacesFrom(rt, i + 1)

\* bindNS without the test of its path
bindStartNoTest(rt, b, j) == Pos("bind_mkdirall", j)

\* bindNS: if path == "" { return nil }, else on to os.MkdirAll
bindStart(rt, b, j) ==
    IF b.path = <<>> THEN BindsFrom(rt, j + 1) ELSE Pos("bind_mkdirall", j)

\* os.MkdirAll of the path itself
bindMkdirAllPath(b) == Sys("MkdirAll", b.path, "", "", 0, "", "?")

\* os.MkdirAll(filepath.Dir(path), 0755)
bindMkdirAll(b) == Sys("MkdirAll", FilepathDir(b.path), "", "", 0, "", "?")

\* os.Create(path)
bindCreate(b) == Sys("Create", b.path, "", "", 0, "", "?")

\* fi.Close()
bindClose(b) == Sys("Close", b.path, "", "", 0, "", "?")

\* unix.Mount(fmt.Sprintf("/proc/%d/ns/%s", pid, ns), path, "", MS_BIND, "")
bindMount(b, process) ==
    Sys("Mount", b.path, nsSource(b.ns, process), "", MS_BIND, "", "?")

ProcIssue(c, o) ==
    /\ trace' = Append(trace, Entry(c, o.res))
    /\ dirs' = o.dirs
    /\ files' = o.files
    /\ mtab' = o.mtab
    /\ links' = o.links

\* a step of prepareProcess that issues c and goes on whatever the result
ProcStepDiscarding(at, c, next) ==
    /\ pc = at
    /\ \E o \in ProcOutcomes(c, dirs, files, mtab, links) :
        /\ ProcIssue(c, o)
        /\ Goto(discardErr(o.res, next))
    /\ UNCHANGED <<options, result, runtime, path, call, probe, strategy,
                   prev, calls, pid, other>>

\* a step of prepareProcess that issues c and returns the error or goes on
ProcStep(at, c, next) ==
    /\ pc = at
    /\ \E o \in ProcOutcomes(c, dirs, files, mtab, links) :
        /\ ProcIssue(c, o)
        /\ Goto(failFast(o.res, next))
    /\ UNCHANGED <<options, result, runtime, path, call, probe, strategy,
                   prev, calls, pid, other>>

\* prepareProcess going to the binds at once
prepareProcessBindsFirst ==
    /\ call # "prepareProcess"
    /\ Enter("prepareProcess", BindsFrom(runtime, 1))

\* func prepareProcess(pid int, runtime Runtime) error: entry, once for a
\* process
prepareProcess ==
    /\ call # "prepareProcess"
    /\ Enter("prepareProcess", IfacesFrom(runtime, 1))

\* netlink.LinkAdd(link)
prepareProcess_LinkAdd ==
    /\ pc = "link_add"
    /\ ProcStep("link_add", linkAdd(normalise(runtime.Interfaces[idx]), pid),
                afterLinkAdd(runtime, normalise(runtime.Interfaces[idx]),
                             idx))

\* link, err = netlink.LinkByName(iface.Name) without move = true
prepareProcess_LinkByNameNoMove ==
    /\ pc = "link_byname"
    /\ ProcStep("link_byname", linkByName(runtime.Interfaces[idx]),
                IF runtime.Interfaces[idx].CreateInRoot
                THEN Pos("link_move", idx)
                ELSE IfacesFrom(runtime, idx + 1))

\* link, err = netlink.LinkByName(iface.Name); move = true
prepareProcess_LinkByName ==
    /\ pc = "link_byname"
    /\ ProcStep("link_byname", linkByName(runtime.Interfaces[idx]),
                Pos("link_move", idx))

\* if move { netlink.LinkSetNsPid(link, int(pid)) }
prepareProcess_LinkSetNsPid ==
    /\ pc = "link_move"
    /\ ProcStep("link_move", linkSetNsPid(runtime.Interfaces[idx], pid),
                IfacesFrom(runtime, idx + 1))

\* func bindNS(ns string, path string, pid int) error: entry and path test
bindNS ==
    /\ pc = "bind"
    /\ trace' = Append(trace, BindCall(binds(runtime)[idx].ns,
                                       binds(runtime)[idx].path, pid))
    /\ Goto(bindStart(runtime, binds(runtime)[idx], idx))
    /\ UNCHANGED <<options, result, runtime, path, dirs, mtab, call, probe,
                   strategy, prev, calls, procVars>>

\* bindNS: os.MkdirAll(dir, 0755)
bindNS_MkdirAll ==
    /\ pc = "bind_mkdirall"
    /\ ProcStep("bind_mkdirall", bindMkdirAll(binds(runtime)[idx]),
                Pos("bind_create", idx))

\* bindNS: fi, err := os.Create(path)
bindNS_Create ==
    /\ pc = "bind_create"
    /\ ProcStep("bind_create", bindCreate(binds(runtime)[idx]),
                Pos("bind_close", idx))

\* bindNS: fi.Close()
bindNS_Close ==
    /\ pc = "bind_close"
    /\ ProcStep("bind_close", bindClose(binds(runtime)[idx]),
                Pos("bind_mount", idx))

\* bindNS: unix.Mount of the namespace file, then the next of the binds
bindNS_Mount ==
    /\ pc = "bind_mount"
    /\ ProcStep("bind_mount", bindMount(binds(runtime)[idx], pid),
                BindsFrom(runtime, idx + 1))

-----------------------------------------------------------------------------
(* Specifications                                                          *)

\* the filesystem side before any call
InitFs ==
    /\ runtime \in Runtimes
    /\ path \in StatePaths
    /\ dirs \in InitialDirs(path)
    /\ mtab = <<>>
    /\ call = "none"
    /\ pc = "idle"
    /\ idx = 0
    /\ ret = "none"
    /\ trace = <<>>
    /\ probe = "none"
    /\ strategy = "none"
    /\ prev = NoCall
    /\ calls = 0

\* no process, no regular file, no link
InitNoProcess ==
    /\ pid = 0
    /\ files = {}
    /\ links = {}
    /\ other = NoOther

Init ==
    /\ InitFs
    /\ InitNoProcess
    /\ options = <<>>
    /\ result = NoResult

Next ==
    \/ prepareFilesystem
    \/ prepareFilesystem_MountMkdirAll
    \/ prepareFilesystem_Mount
    \/ prepareFilesystem_Mkdir
    \/ prepareFilesystem_Stat
    \/ prepareRO
    \/ prepareRW_Tmpfs
    \/ prepareRW_Private
    \/ prepareRW_Upper
    \/ prepareRW_Work
    \/ prepareRW_Overlay
    \/ cleanup
    \/ cleanup_Stat
    \/ cleanupRO
    \/ cleanupRW_RemoveRootfs
    \/ cleanupRW_UnmountRootfs
    \/ cleanupRW_RemoveTmp
    \/ cleanupRW_UnmountTmp

\* prepareFilesystem and cleanup called one after the other on one state path
Spec == Init /\ [][Next]_vars

\* between two calls somebody removes lower with what it holds; what an
\* overlay mounted with it as lowerdir shows from then on is not defined
\* by the kernel: the content stays visible or is gone
lowerRemoved ==
    /\ pc = "idle"
    /\ FilepathJoin(path, "lower") \in dirs
    /\ LET rootfs == FilepathJoin(path, "rootfs")
           left   == {d \in dirs : ~IsPrefix(FilepathJoin(path, "lower"), d)}
       IN  \/ dirs' = left
           \/ /\ IsMountPoint(mtab, rootfs)
              /\ mtab[TopMount(mtab, rootfs)].fstype = "overlay"
              /\ dirs' = left \ StrictlyUnder(left, rootfs)
    /\ UNCHANGED <<options, result, runtime, path, mtab, call, pc, idx, ret,
                   trace, probe, strategy, prev, calls, procVars>>

\* between two calls somebody creates lower
lowerCreated ==
    /\ pc = "idle"
    /\ path \in dirs
    /\ FilepathJoin(path, "lower") \notin dirs
    /\ dirs' = dirs \cup {FilepathJoin(path, "lower")}
    /\ UNCHANGED <<options, result, runtime, path, mtab, call, pc, idx, ret,
                   trace, probe, strategy, prev, calls, procVars>>

\* the configurations of the calls between which lower changes: nothing
\* declared, or one mount and one directory
RaceRuntimes ==
    {[Mounts |-> <<>>, Mkdir |-> <<>>],
     [Mounts |-> <<[Destination |-> <<"var", "lib">>, Type |-> "tmpfs",
                    Source |-> "tmpfs",
                    Options |-> <<"rw", "nodev", "size=50%">>]>>,
      Mkdir |-> <<<<"var", "lib", "x">>>>]}

InitRace ==
    /\ runtime \in RaceRuntimes
    /\ path \in StatePaths
    /\ dirs \in InitialDirs(path)
    /\ mtab = <<>>
    /\ call = "none"
    /\ pc = "idle"
    /\ idx = 0
    /\ ret = "none"
    /\ trace = <<>>
    /\ probe = "none"
    /\ strategy = "none"
    /\ prev = NoCall
    /\ calls = 0
    /\ InitNoProcess
    /\ options = <<>>
    /\ result = NoResult

NextRace ==
    \/ Next
    \/ lowerRemoved
    \/ lowerCreated

\* prepareFilesystem and cleanup called one after the other on one state
\* path while lower comes and goes between the calls
SpecRace == InitRace /\ [][NextRace]_vars

\* parseMountOptions applied to one option list
InitParse ==
    /\ options \in OptionLists
    /\ result = NoResult
    /\ runtime = [Mounts |-> <<>>, Mkdir |-> <<>>]
    /\ path = <<"c">>
    /\ dirs = {}
    /\ mtab = <<>>
    /\ call = "none"
    /\ pc = "idle"
    /\ idx = 0
    /\ ret = "none"
    /\ trace = <<>>
    /\ probe = "none"
    /\ strategy = "none"
    /\ prev = NoCall
    /\ calls = 0
    /\ InitNoProcess

\* the caller applies parseMountOptions to options
ParseCall ==
    /\ result = NoResult
    /\ result' = parseMountOptions(options)
    /\ UNCHANGED <<options, fsVars, procVars>>

NextParse == ParseCall

SpecParse == InitParse /\ [][NextParse]_vars

\* a new process pid, its configuration and the host before prepareProcess
InitProcess ==
    /\ runtime \in ProcessRuntimes
    /\ pid \in Pids
    /\ path \in StatePaths
    /\ \E h \in InitialHosts : dirs = h.dirs /\ files = h.files
    /\ links \in InitialLinks
    /\ mtab = <<>>
    /\ call = "none"
    /\ pc = "idle"
    /\ idx = 0
    /\ ret = "none"
    /\ trace = <<>>
    /\ probe = "none"
    /\ strategy = "none"
    /\ prev = NoCall
    /\ calls = 0
    /\ other = NoOther
    /\ options = <<>>
    /\ result = NoResult

NextProcess ==
    \/ prepareProcess
    \/ prepareProcess_LinkAdd
    \/ prepareProcess_LinkByName
    \/ prepareProcess_LinkSetNsPid
    \/ bindNS
    \/ bindNS_MkdirAll
    \/ bindNS_Create
    \/ bindNS_Close
    \/ bindNS_Mount

\* prepareProcess called for a new container process
SpecProcess == InitProcess /\ [][NextProcess]_vars

\* the preparation that is running now, as other holds the one that is not
Running ==
    [runtime |-> runtime, path |-> path, pid |-> pid, call |-> call,
     pc |-> pc, idx |-> idx, ret |-> ret, trace |-> trace, probe |-> probe,
     strategy |-> strategy, prev |-> prev, calls |-> calls]

\* the scheduler takes the processor from the running preparation and gives
\* it to the other one, between any two of their steps
Switch ==
    /\ other.pc # "absent"
    /\ other' = Running
    /\ runtime' = other.runtime
    /\ path' = other.path
    /\ pid' = other.pid
    /\ call' = other.call
    /\ pc' = other.pc
    /\ idx' = other.idx
    /\ ret' = other.ret
    /\ trace' = other.trace
    /\ probe' = other.probe
    /\ strategy' = other.strategy
    /\ prev' = other.prev
    /\ calls' = other.calls
    /\ UNCHANGED <<options, result, dirs, files, mtab, links>>

\* a preparation starts with prepareFilesystem
startFilesystem ==
    /\ call = "none"
    /\ prepareFilesystem

\* and goes on with prepareProcess once the container process exists
startProcess ==
    /\ call = "prepareFilesystem"
    /\ ret = "nil"
    /\ prepareProcess

\* a Runtime with its four fields
Runtime(mounts, mkdir, interfaces, S) ==
    [Mounts |-> mounts, Mkdir |-> mkdir, Interfaces |-> interfaces,
     BindNS |-> BindNSOf(S)]

TmpfsVarLib ==
    [Destination |-> <<"var", "lib">>, Type |-> "tmpfs", Source |-> "tmpfs",
     Options |-> <<"rw", "nodev", "size=50%">>]

Ext4Var ==
    [Destination |-> <<"var">>, Type |-> "ext4", Source |-> "/dev/sda1",
     Options |-> <<"ro", "defaults">>]

\* a preparation that has not started
Fresh(p, process, rt) ==
    [runtime |-> rt, path |-> p, pid |-> process, call |-> "none",
     pc |-> "idle", idx |-> 0, ret |-> "none", trace |-> <<>>,
     probe |-> "none", strategy |-> "none", prev |-> NoCall, calls |-> 0]

\* the pairs of preparations that run concurrently: state paths, pids and
\* interface names differ in every pair
ConcurrentPairs ==
    {<<Fresh(<<"c">>, 7, Runtime(<<TmpfsVarLib>>, <<>>, <<>>, {})),
       Fresh(<<"e">>, 12, Runtime(<<Ext4Var>>, <<>>, <<>>, {}))>>,
     <<Fresh(<<"c">>, 7,
             Runtime(<<>>, <<<<"var", "lib", "x">>>>,
                     <<Interface("veth0", "veth", "p0", FALSE)>>, {"net"})),
       Fresh(<<"e">>, 12,
             Runtime(<<>>, <<>>, <<Interface("eth0", "", "", FALSE)>>,
                     {"uts"}))>>,
     <<Fresh(<<"c">>, 7, Runtime(<<>>, <<>>, <<>>, {})),
       Fresh(<<"d">>, 12, Runtime(<<>>, <<>>, <<>>, {}))>>,
     <<Fresh(<<"e">>, 7,
             Runtime(<<>>, <<>>,
                     <<Interface("veth0", "veth", "p0", FALSE)>>, {})),
       Fresh(<<"d">>, 12,
             Runtime(<<>>, <<>>,
                     <<Interface("veth3", "veth", "p0", FALSE)>>, {}))>>}

\* the host before the two preparations: /c and /d are writable containers
\* (lower exists), /e is a read-only one
ConcurrentHost ==
    [dirs |-> {<<"tmp">>,
               <<"c">>, <<"c", "rootfs">>, <<"c", "rootfs", "bin">>,
               <<"c", "lower">>, <<"c", "lower", "bin">>, <<"c", "tmp">>,
               <<"d">>, <<"d", "rootfs">>, <<"d", "rootfs", "bin">>,
               <<"d", "lower">>, <<"d", "lower", "bin">>, <<"d", "tmp">>,
               <<"e">>, <<"e", "rootfs">>, <<"e", "rootfs", "bin">>},
     files |-> {},
     mtab  |-> <<>>,
     links |-> {NewLink("eth0", RootNs, "device")}]

\* two preparations on one host, neither started
InitConcurrent ==
    /\ \E pair \in ConcurrentPairs :
        /\ runtime = pair[1].runtime
        /\ path = pair[1].path
        /\ pid = pair[1].pid
        /\ other = pair[2]
    /\ dirs = ConcurrentHost.dirs
    /\ files = ConcurrentHost.files
    /\ mtab = ConcurrentHost.mtab
    /\ links = ConcurrentHost.links
    /\ call = "none"
    /\ pc = "idle"
    /\ idx = 0
    /\ ret = "none"
    /\ trace = <<>>
    /\ probe = "none"
    /\ strategy = "none"
    /\ prev = NoCall
    /\ calls = 0
    /\ options = <<>>
    /\ result = NoResult

NextConcurrent ==
    \/ startFilesystem
    \/ prepareFilesystem_MountMkdirAll
    \/ prepareFilesystem_Mount
    \/ prepareFilesystem_Mkdir
    \/ prepareFilesystem_Stat
    \/ prepareRO
    \/ prepareRW_Tmpfs
    \/ prepareRW_Private
    \/ prepareRW_Upper
    \/ prepareRW_Work
    \/ prepareRW_Overlay
    \/ startProcess
    \/ prepareProcess_LinkAdd
    \/ prepareProcess_LinkByName
    \/ prepareProcess_LinkSetNsPid
    \/ bindNS
    \/ bindNS_MkdirAll
    \/ bindNS_Create
    \/ bindNS_Close
    \/ bindNS_Mount
    \/ Switch

\* two preparations (prepareFilesystem then prepareProcess each) whose
\* system calls interleave in any order
SpecConcurrent == InitConcurrent /\ [][NextConcurrent]_vars

\* the life of one container: prepareFilesystem before the container is
\* created
lifecycle_prepareFilesystem ==
    /\ call = "none"
    /\ Begin("prepareFilesystem", MountsFrom(runtime, 1))

\* prepareProcess once the container process exists, after a
\* prepareFilesystem that returned nil
lifecycle_prepareProcess ==
    /\ call = "prepareFilesystem"
    /\ ret = "nil"
    /\ Begin("prepareProcess", IfacesFrom(runtime, 1))

\* cleanup at teardown, or after a preparation that returned an error
lifecycle_cleanup ==
    /\ call \in {"prepareFilesystem", "prepareProcess"}
    /\ Begin("cleanup", Pos("cleanup_stat", 0))

\* the configurations of the container: nothing declared; one mount, one
\* directory, a veth pair, a moved device and two binds; two mounts, a
\* dummy link created in the process namespace and one bind
LifecycleRuntimes ==
    {Runtime(<<>>, <<>>, <<>>, {}),
     Runtime(<<TmpfsVarLib>>, <<<<"var", "lib", "x">>>>,
             <<Interface("veth0", "veth", "p0", FALSE),
               Interface("eth0", "", "", FALSE)>>, {"net", "uts"}),
     Runtime(<<Ext4Var, TmpfsVarLib>>, <<>>,
             <<Interface("dummy0", "dummy", "", FALSE)>>, {"net"})}

\* the process of the container
LifecyclePid == CHOOSE p \in Pids : \A q \in Pids : p <= q

\* a container that has not been prepared, on a host with one device
InitLifecycle ==
    /\ runtime \in LifecycleRuntimes
    /\ path \in StatePaths
    /\ pid = LifecyclePid
    /\ dirs \in InitialDirs(path)
    /\ files = {}
    /\ links = {NewLink("eth0", RootNs, "device")}
    /\ mtab = <<>>
    /\ call = "none"
    /\ pc = "idle"
    /\ idx = 0
    /\ ret = "none"
    /\ trace = <<>>
    /\ probe = "none"
    /\ strategy = "none"
    /\ prev = NoCall
    /\ calls = 0
    /\ other = NoOther
    /\ options = <<>>
    /\ result = NoResult

NextLifecycle ==
    \/ lifecycle_prepareFilesystem
    \/ prepareFilesystem_MountMkdirAll
    \/ prepareFilesystem_Mount
    \/ prepareFilesystem_Mkdir
    \/ prepareFilesystem_Stat
    \/ prepareRO
    \/ prepareRW_Tmpfs
    \/ prepareRW_Private
    \/ prepareRW_Upper
    \/ prepareRW_Work
    \/ prepareRW_Overlay
    \/ lifecycle_prepareProcess
    \/ prepareProcess_LinkAdd
    \/ prepareProcess_LinkByName
    \/ prepareProcess_LinkSetNsPid
    \/ bindNS
    \/ bindNS_MkdirAll
    \/ bindNS_Create
    \/ bindNS_Close
    \/ bindNS_Mount
    \/ lifecycle_cleanup
    \/ cleanup_Stat
    \/ cleanupRO
    \/ cleanupRW_RemoveRootfs
    \/ cleanupRW_UnmountRootfs
    \/ cleanupRW_RemoveTmp
    \/ cleanupRW_UnmountTmp

\* one container from its preparation to its teardown: prepareFilesystem,
\* prepareProcess when that succeeded, then cleanup
SpecLifecycle == InitLifecycle /\ [][NextLifecycle]_vars

-----------------------------------------------------------------------------
(* Reading the trace of the current call                                   *)

InPrepare == call = "prepareFilesystem"

InCleanup == call = "cleanup"

HasReturned == pc = "idle" /\ call # "none"

\* the (operation, path) pairs of a trace
Proj(tr) == [k \in 1..Len(tr) |-> <<tr[k].op, tr[k].path>>]

StatAt(tr) == {k \in 1..Len(tr) : tr[k].op = "Stat"}

\* the entries after the first os.Stat of the trace
AfterStat(tr) ==
    IF StatAt(tr) = {} THEN <<>>
    ELSE LET k == CHOOSE i \in StatAt(tr) : \A j \in StatAt(tr) : i <= j
         IN  SubSeq(tr, k + 1, Len(tr))

\* a system call that failed (a lower that does not exist is an answer)
Failed(e) == e.res = "err"

Rootfs == FilepathJoin(path, "rootfs")

Tmp == FilepathJoin(path, "tmp")

Lower == FilepathJoin(path, "lower")

-----------------------------------------------------------------------------
(* C1 *)

\* what section 4.2 steps 1 and 2 prescribe: per declared mount the
\* directory then the mount, then the mkdir list
DeclaredPlan(rt) ==
    LET n == Len(rt.Mounts)
    IN  [k \in 1..(2 * n + Len(rt.Mkdir)) |->
            IF k <= 2 * n
            THEN IF k % 2 = 1
                 THEN <<"MkdirAll", rt.Mounts[(k + 1) \div 2].Destination>>
                 ELSE <<"Mount", rt.Mounts[k \div 2].Destination>>
            ELSE <<"MkdirAll", rt.Mkdir[k - 2 * n]>>]

\* C1: prepareFilesystem issues the declared mounts in declared order, each
\* as one MkdirAll of the destination followed by one Mount, then the
\* config.mkdir MkdirAlls, then the probe and the rootfs strategy; every
\* call that is followed by another one succeeded, and once a call has
\* failed prepareFilesystem has returned an error and issues nothing more.
Thm_C1 ==
    InPrepare =>
        LET plan == DeclaredPlan(runtime)
            m    == IF Len(trace) < Len(plan) THEN Len(trace) ELSE Len(plan)
        IN  /\ SubSeq(Proj(trace), 1, m) = SubSeq(plan, 1, m)
            /\ \A k \in 1..(Len(trace) - 1) : ~Failed(trace[k])
            /\ (\E k \in 1..Len(trace) : Failed(trace[k]))
                   => pc = "idle" /\ ret = "err"
            /\ Len(trace) > Len(plan) => trace[Len(plan) + 1].op = "Stat"
            /\ \A k \in 1..Len(trace) :
                   trace[k].path \in {Rootfs, Tmp} /\ trace[k].op = "Mount"
                       => k > Len(plan) + 1

\* C1 witness: the second of two declared mounts fails, with a mkdir pending
Wit_C1 ==
    /\ InPrepare
    /\ Len(runtime.Mounts) = 2
    /\ Len(runtime.Mkdir) = 1
    /\ Len(trace) = 4
    /\ trace[4].op = "Mount"
    /\ Failed(trace[4])
    /\ ret = "err"

-----------------------------------------------------------------------------
(* C2 *)

\* a call of the read-only strategy: a bind mount onto rootfs
IsROCall(e) ==
    e.op = "Mount" /\ e.path = Rootfs /\ BitAnd(e.flags, MS_BIND) # 0

\* a call of the writable strategy: anything on tmp or below, or the overlay
IsRWCall(e) ==
    \/ IsPrefix(Tmp, e.path)
    \/ e.op = "Mount" /\ e.path = Rootfs /\ e.fstype = "overlay"

\* C2: after the probe of lower, prepareFilesystem runs only the read-only
\* strategy when lower does not exist, only the writable strategy when it
\* exists, and when the probe fails otherwise it returns an error without
\* any further call (no mount on rootfs or tmp follows the probe).
Thm_C2 ==
    InPrepare =>
        LET after == AfterStat(trace)
            E     == {after[k] : k \in 1..Len(after)}
        IN  /\ probe = "none" <=> StatAt(trace) = {}
            /\ probe = "notexist"
                   => /\ \A e \in E : IsROCall(e) /\ ~IsRWCall(e)
                      /\ HasReturned => Len(after) = 1
            /\ probe = "ok"
                   => /\ \A e \in E : IsRWCall(e) /\ ~IsROCall(e)
                      /\ HasReturned => Len(after) >= 1
            /\ probe = "err"
                   => after = <<>> /\ HasReturned /\ ret = "err"
            /\ probe = "none" => after = <<>>

\* C2 witness: the probe failed with another error and prepare returned
Wit_C2 ==
    /\ InPrepare
    /\ probe = "err"
    /\ HasReturned
    /\ Len(runtime.Mounts) = 1

-----------------------------------------------------------------------------
(* C3 *)

\* the writable strategy as section 4.2 and section 8 give it
WritablePlan(p) ==
    <<Sys("Mount", p \o <<"tmp">>, "tmpfs", "tmpfs", 0, "size=10%", "?"),
      Sys("Mount", p \o <<"tmp">>, "", "", 32 + 262144, "", "?"),
      Sys("Mkdir", p \o <<"tmp", "upper">>, "", "", 0, "", "?"),
      Sys("Mkdir", p \o <<"tmp", "work">>, "", "", 0, "", "?"),
      Sys("Mount", p \o <<"rootfs">>, "overlay", "overlay", 0,
          "lowerdir=" \o PathStr(p) \o "/lower,upperdir=" \o PathStr(p)
              \o "/tmp/upper,workdir=" \o PathStr(p) \o "/tmp/work", "?")>>

\* C3: when lower exists the calls after the probe are, in this order, the
\* tmpfs mount at tmp, the private remount of tmp, the creation of
\* tmp/upper and of tmp/work and the overlay mount at rootfs with exactly
\* the lowerdir/upperdir/workdir data; a call is issued only when all the
\* earlier ones succeeded, a failure returns an error, and prepare returns
\* success only after all five succeeded.
Thm_C3 ==
    (InPrepare /\ probe = "ok") =>
        LET after == AfterStat(trace)
            plan  == WritablePlan(path)
        IN  /\ Len(after) <= Len(plan)
            /\ \A k \in 1..Len(after) :
                   /\ Entry(after[k], "?") = plan[k]
                   /\ k < Len(after) => after[k].res = "ok"
                   /\ after[k].res # "ok" => HasReturned /\ ret = "err"
            /\ ret = "nil"
                   => /\ Len(after) = Len(plan)
                      /\ after[Len(plan)].res = "ok"
            /\ HasReturned /\ ret = "err"
                   => Len(after) >= 1 /\ after[Len(after)].res = "err"

\* C3 witness: the writable strategy ran to the end and the overlay is on
\* rootfs
Wit_C3 ==
    /\ InPrepare
    /\ probe = "ok"
    /\ ret = "nil"
    /\ Len(mtab) >= 2
    /\ mtab[Len(mtab)].target = Rootfs
    /\ mtab[Len(mtab)].data
           = "lowerdir=/c/lower,upperdir=/c/tmp/upper,workdir=/c/tmp/work"

-----------------------------------------------------------------------------
(* C4 *)

MountsIn(tr) == {k \in 1..Len(tr) : tr[k].op = "Mount"}

CreationsIn(tr) == {k \in 1..Len(tr) : tr[k].op \in {"MkdirAll", "Mkdir"}}

\* the self-bind of rootfs as section 4.2 gives it
SelfBind(p) ==
    Sys("Mount", p \o <<"rootfs">>, PathStr(p) \o "/rootfs", "", 4096, "", "?")

-----------------------------------------------------------------------------
(* C5 *)

\* the read-only teardown of section 4.5
ReadOnlyTeardown(p) == <<<<"Unmount", p \o <<"rootfs">>>>>>

\* the writable teardown of section 4.5
WritableTeardown(p) ==
    <<<<"RemoveAll", p \o <<"rootfs">>>>, <<"Unmount", p \o <<"rootfs">>>>,
      <<"RemoveAll", p \o <<"tmp">>>>, <<"Unmount", p \o <<"tmp">>>>>>

-----------------------------------------------------------------------------
(* C6 *)

\* C6 as claimed: for every probe outcome cleanup selects the teardown of
\* the strategy prepareFilesystem selects for that outcome, and each call
\* probes lower exactly once.
Claim_C6 ==
    /\ Cardinality(StatAt(trace)) <= 1
    /\ (InCleanup /\ strategy # "none" /\ prev.call = "prepareFilesystem"
            /\ prev.probe = probe)
           => prev.strategy = strategy

\* C6 amended: when lower exists, or does not exist, cleanup selects the
\* teardown of the strategy prepareFilesystem selects for that outcome;
\* when the probe fails with another error prepareFilesystem selects no
\* strategy and returns the error, while cleanup selects the read-only
\* teardown; each call probes lower at most once, cleanup exactly once and
\* prepareFilesystem exactly once when it gets past the declared mounts and
\* mkdirs.
Thm_C6 ==
    /\ Cardinality(StatAt(trace)) <= 1
    /\ \A k \in StatAt(trace) : trace[k].path = Lower /\ trace[k].res = probe
    /\ (HasReturned /\ InCleanup) => Cardinality(StatAt(trace)) = 1
    /\ (InPrepare /\ Len(trace) > Len(DeclaredPlan(runtime)))
           => Cardinality(StatAt(trace)) = 1
    /\ (InCleanup /\ strategy # "none" /\ prev.call = "prepareFilesystem"
            /\ prev.probe = probe /\ probe # "err")
           => prev.strategy = strategy
    /\ (InCleanup /\ probe = "ok") => strategy = "rw"
    /\ (InCleanup /\ probe = "notexist") => strategy = "ro"
    /\ (InCleanup /\ probe = "err") => strategy = "ro"
    /\ (InPrepare /\ probe = "err") => strategy = "none" /\ ret = "err"
    /\ (InCleanup /\ strategy = "ro" /\ Len(trace) > 1)
           => Proj(trace)[2] = <<"Unmount", Rootfs>>
    /\ (InCleanup /\ strategy = "rw" /\ Len(trace) > 1)
           => Proj(trace)[2] = <<"RemoveAll", Rootfs>>

\* C6 witness: the probe failed in prepareFilesystem, which selected no
\* strategy, and failed again in cleanup, which ran the read-only teardown
Wit_C6 ==
    /\ InCleanup
    /\ HasReturned
    /\ probe = "err"
    /\ prev.call = "prepareFilesystem"
    /\ prev.probe = "err"
    /\ prev.strategy = "none"
    /\ strategy = "ro"
    /\ Len(trace) = 2

-----------------------------------------------------------------------------
(* C7 *)

Parsed == result # NoResult

\* the table of section 4.1: token -> (set or clear, the bits)
EffectTable ==
    [async         |-> [set |-> FALSE, bits |-> {MS_SYNCHRONOUS}],
     atime         |-> [set |-> FALSE, bits |-> {MS_NOATIME}],
     bind          |-> [set |-> TRUE,  bits |-> {MS_BIND}],
     dev           |-> [set |-> FALSE, bits |-> {MS_NODEV}],
     diratime      |-> [set |-> FALSE, bits |-> {MS_NODIRATIME}],
     dirsync       |-> [set |-> TRUE,  bits |-> {MS_DIRSYNC}],
     exec          |-> [set |-> FALSE, bits |-> {MS_NOEXEC}],
     mand          |-> [set |-> TRUE,  bits |-> {MS_MANDLOCK}],
     noatime       |-> [set |-> TRUE,  bits |-> {MS_NOATIME}],
     nodev         |-> [set |-> TRUE,  bits |-> {MS_NODEV}],
     nodiratime    |-> [set |-> TRUE,  bits |-> {MS_NODIRATIME}],
     noexec        |-> [set |-> TRUE,  bits |-> {MS_NOEXEC}],
     nomand        |-> [set |-> FALSE, bits |-> {MS_MANDLOCK}],
     norelatime    |-> [set |-> FALSE, bits |-> {MS_RELATIME}],
     nostrictatime |-> [set |-> FALSE, bits |-> {MS_STRICTATIME}],
     nosuid        |-> [set |-> TRUE,  bits |-> {MS_NOSUID}],
     rbind         |-> [set |-> TRUE,  bits |-> {MS_BIND, MS_REC}],
     relatime      |-> [set |-> TRUE,  bits |-> {MS_RELATIME}],
     remount       |-> [set |-> TRUE,  bits |-> {MS_REMOUNT}],
     ro            |-> [set |-> TRUE,  bits |-> {MS_RDONLY}],
     rw            |-> [set |-> FALSE, bits |-> {MS_RDONLY}],
     strictatime   |-> [set |-> TRUE,  bits |-> {MS_STRICTATIME}],
     suid          |-> [set |-> FALSE, bits |-> {MS_NOSUID}],
     sync          |-> [set |-> TRUE,  bits |-> {MS_SYNCHRONOUS}]]

\* the reference fold of the table over opts[i..], on a set of bits
RECURSIVE EffectFold(_, _, _)
EffectFold(opts, i, B) ==
    IF i > Len(opts) THEN B
    ELSE LET o == opts[i]
         IN  EffectFold(opts, i + 1,
                 IF o \notin DOMAIN EffectTable THEN B
                 ELSE IF EffectTable[o].set THEN B \cup EffectTable[o].bits
                 ELSE B \ EffectTable[o].bits)

RECURSIVE SumOf(_)
SumOf(B) ==
    IF B = {} THEN 0
    ELSE LET b == CHOOSE x \in B : TRUE IN b + SumOf(B \ {b})

\* C7: the flags parseMountOptions returns are the reference fold of the
\* table of section 4.1 over the option list: each token sets or clears
\* exactly its bits (rbind both BIND and REC) and no other bit changes.
Thm_C7 ==
    Parsed => result.flag = SumOf(EffectFold(options, 1, {}))

\* C7 witness: rbind set BIND and REC, atime had nothing to clear
Wit_C7 ==
    /\ Parsed
    /\ options = <<"rbind", "atime">>
    /\ result.flag = MS_BIND + MS_REC

-----------------------------------------------------------------------------
(* C8 *)

AllBits == UNION {EffectTable[o].bits : o \in DOMAIN EffectTable}

\* the positions of opts whose token sets or clears bit b
Writers(opts, b) ==
    {i \in 1..Len(opts) :
        opts[i] \in DOMAIN EffectTable /\ b \in EffectTable[opts[i]].bits}

\* C8: for every flag bit, the bit is set in the result exactly when some
\* token of the list writes it and the last token that writes it sets it;
\* ro,rw leaves RDONLY cleared and rw,ro leaves it set.
Thm_C8 ==
    Parsed =>
        /\ \A b \in AllBits :
               LET W == Writers(options, b)
               IN  BitAnd(result.flag, b) = b
                       <=> /\ W # {}
                           /\ EffectTable[options[
                                  CHOOSE i \in W : \A j \in W : j <= i]].set
        /\ options = <<"ro", "rw">> => BitAnd(result.flag, MS_RDONLY) = 0
        /\ options = <<"rw", "ro">>
               => BitAnd(result.flag, MS_RDONLY) = MS_RDONLY

\* C8 witness: ro then rw has been parsed and RDONLY is cleared
Wit_C8 ==
    /\ Parsed
    /\ options = <<"ro", "rw">>
    /\ result.flag = 0

-----------------------------------------------------------------------------
(* C9 *)

\* the tokens that go to the data list: the ones the table does not
\* name and the ones it names with a zero bit value
IsData(o) == o \notin DOMAIN EffectTable

IsFlag(o) == o \in DOMAIN EffectTable

IsUnknown(o) == o \notin DOMAIN EffectTable /\ o # "defaults"

\* C9: parseMountOptions returns a result for every option list; the data
\* string is the comma-join, in input order, of the tokens that are not
\* flag tokens (every unrecognized token, verbatim); removing the
\* unrecognized tokens from the list leaves the flags unchanged; a list made
\* of ro, noexec and nodev gives RDONLY|NOEXEC|NODEV and empty data, and
\* rw,foo=bar gives flags 0 and data foo=bar.
Thm_C9 ==
    /\ ~Parsed => ENABLED ParseCall
    /\ Parsed =>
        /\ result.flag >= 0
        /\ result.data = StringsJoin(SelectSeq(options, IsData), ",")
        /\ (\A i \in 1..Len(options) : IsFlag(options[i]))
               => result.data = ""
        /\ parseMountOptions(SelectSeq(options, LAMBDA o : ~IsUnknown(o))).flag
               = result.flag
        /\ {options[i] : i \in 1..Len(options)} = {"ro", "noexec", "nodev"}
               => /\ result.flag = MS_RDONLY + MS_NOEXEC + MS_NODEV
                  /\ result.data = ""
        /\ options = <<"rw", "foo=bar">>
               => result.flag = 0 /\ result.data = "foo=bar"

\* C9 witness: two unrecognized tokens around a flag token
Wit_C9 ==
    /\ Parsed
    /\ options = <<"foo=bar", "ro", "foo=bar">>
    /\ result.data = "foo=bar,foo=bar"
    /\ result.flag = MS_RDONLY

-----------------------------------------------------------------------------
(* C10 *)

InsertAt(opts, i, o) == SubSeq(opts, 1, i) \o <<o>> \o SubSeq(opts, i + 1, Len(opts))

\* C10 as claimed: inserting defaults at any position of the option list
\* changes neither the flags nor the data string parseMountOptions returns.
Claim_C10 ==
    Parsed =>
        \A i \in 0..Len(options) :
            parseMountOptions(InsertAt(options, i, "defaults")) = result

-----------------------------------------------------------------------------
(* Reading the trace of prepareProcess                                     *)

InProcess == call = "prepareProcess"

LinkOps == {"LinkAdd", "LinkByName", "LinkSetNsPid"}

FileOps == {"MkdirAll", "Create", "Close", "Mount"}

\* the entries of tr whose operation is in ops, in order
RECURSIVE Only(_, _)
Only(tr, ops) ==
    IF tr = <<>> THEN <<>>
    ELSE IF Head(tr).op \in ops THEN <<Head(tr)>> \o Only(Tail(tr), ops)
    ELSE Only(Tail(tr), ops)

\* the bind the running bindNS was called for
ThisBind == binds(runtime)[idx]

-----------------------------------------------------------------------------
(* C11 *)

\* C11: bindNS called with an empty host path, for whatever namespace kind
\* and pid, is over in that one step: it issues no system call (the trace
\* gains the record of the invocation and nothing else), it leaves the
\* directories, the files, the mount table and the links as they were, and it
\* returns nil: prepareProcess goes on to the next kind, or returns nil after
\* the last one.
Thm_C11 ==
    [][(pc = "bind" /\ ThisBind.path = <<>>) =>
          /\ UNCHANGED <<dirs, files, mtab, links>>
          /\ trace' = Append(trace, BindCall(ThisBind.ns, <<>>, pid))
          /\ \/ pc' = "bind" /\ idx' = idx + 1 /\ ret' = "running"
             \/ pc' = "idle" /\ idx = Len(NsKinds) /\ ret' = "nil"]_vars

\* bindNS has returned from a call with an empty path, for the last kind
Wit_C11 ==
    /\ InProcess
    /\ pc = "idle"
    /\ ret = "nil"
    /\ trace # <<>>
    /\ trace[Len(trace)] = BindCall("uts", <<>>, pid)

-----------------------------------------------------------------------------
(* C12 *)

\* the positions of the bindNS invocations in a trace
BindAt(tr) == {k \in 1..Len(tr) : tr[k].op = "bindNS"}

\* the system calls of the bindNS invoked at position k of the trace
SegOf(tr, k) ==
    LET later == {j \in BindAt(tr) : j > k}
        stop  == IF later = {} THEN Len(tr)
                 ELSE (CHOOSE j \in later : \A i \in later : j <= i) - 1
    IN  SubSeq(tr, k + 1, stop)

\* a trace entry without its result
CallOf(e) == [e EXCEPT !.res = "?"]

\* the three steps C12 names for the namespace ns, the host path p and the
\* process: the parent directory, the file, the bind mount
BinderPlan(ns, p, process) ==
    <<Sys("MkdirAll", SubSeq(p, 1, Len(p) - 1), "", "", 0, "", "?"),
      Sys("Create", p, "", "", 0, "", "?"),
      Sys("Mount", p, "/proc/" \o ToString(process) \o "/ns/" \o ns, "",
          MS_BIND, "", "?")>>

BinderSteps == {"MkdirAll", "Create", "Mount"}

\* C12: every bindNS invoked with a non-empty host path issues a prefix of
\* MkdirAll(parent of path), Create(path), Mount(/proc/<pid>/ns/<kind> onto
\* path, MS_BIND), in that order (with the close of the new file between the
\* last two); a step that fails is the last system call of prepareProcess,
\* which has returned the error; while no step has failed and the three are
\* not all done bindNS is still running; and a bind mount is issued only
\* after the Create of that same path succeeded in the same invocation.
Thm_C12 ==
    InProcess =>
        \A k \in BindAt(trace) :
            trace[k].path # <<>> =>
                LET seg   == SegOf(trace, k)
                    steps == Only(seg, BinderSteps)
                    plan  == BinderPlan(trace[k].ns, trace[k].path,
                                        trace[k].pid)
                IN  /\ \A i \in 1..Len(seg) : seg[i].op \in FileOps
                    /\ Len(steps) <= Len(plan)
                    /\ \A i \in 1..Len(steps) : CallOf(steps[i]) = plan[i]
                    /\ \A i \in 1..Len(seg) :
                        seg[i].res # "ok" =>
                            /\ k + i = Len(trace)
                            /\ pc = "idle"
                            /\ ret = "err"
                    /\ (Len(steps) < Len(plan)
                            /\ \A i \in 1..Len(seg) : seg[i].res = "ok") =>
                            /\ k + Len(seg) = Len(trace)
                            /\ pc \in {"bind_mkdirall", "bind_create",
                                       "bind_close", "bind_mount"}
                            /\ ret = "running"
                    /\ \A i \in 1..Len(seg) :
                        seg[i].op = "Mount" =>
                            \E j \in 1..(i - 1) :
                                /\ seg[j].op = "Create"
                                /\ seg[j].path = seg[i].path
                                /\ seg[j].res = "ok"

\* one bindNS has gone through its three steps and the next one has failed
\* to create its file, after which nothing was mounted for it
Wit_C12 ==
    /\ InProcess
    /\ pc = "idle"
    /\ ret = "err"
    /\ \E k \in 1..Len(trace) : trace[k].op = "Mount" /\ trace[k].res = "ok"
    /\ trace[Len(trace)].op = "Create"
    /\ trace[Len(trace)].res = "err"

-----------------------------------------------------------------------------
(* C13 *)

\* the path the configuration cfg gives the namespace kind
ConfiguredPath(cfg, kind) ==
    CASE kind = "cgroup" -> cfg.Cgroup
      [] kind = "ipc"    -> cfg.Ipc
      [] kind = "mnt"    -> cfg.Mnt
      [] kind = "net"    -> cfg.Net
      [] kind = "pid"    -> cfg.Pid
      [] kind = "user"   -> cfg.User
      [] kind = "uts"    -> cfg.Uts

\* C13: the bindNS invocations of prepareProcess are, in order, those of
\* cgroup, ipc, mnt, net, pid, user, uts, each with the path configured for
\* that kind and the pid; prepareProcess returns nil only after all seven;
\* a system call of a bind that fails is the last entry of the trace and
\* prepareProcess has returned the error, so no later kind is invoked; and
\* every bind mount made by the call is still in the mount table.
Thm_C13 ==
    InProcess =>
        LET invoked == Only(trace, {"bindNS"})
        IN  /\ Len(invoked) <= Len(NsKinds)
            /\ \A i \in 1..Len(invoked) :
                invoked[i] =
                    BindCall(NsKinds[i],
                             ConfiguredPath(runtime.BindNS, NsKinds[i]), pid)
            /\ (pc = "idle" /\ ret = "nil") => Len(invoked) = Len(NsKinds)
            /\ \A k \in 1..Len(trace) :
                (trace[k].op \in FileOps /\ trace[k].res # "ok") =>
                    /\ k = Len(trace)
                    /\ pc = "idle"
                    /\ ret = "err"
            /\ \A k \in 1..Len(trace) :
                (trace[k].op = "Mount" /\ trace[k].res = "ok") =>
                    \E m \in 1..Len(mtab) :
                        /\ mtab[m].target = trace[k].path
                        /\ mtab[m].source = trace[k].source
                        /\ mtab[m].bind

\* the binds of cgroup and net are made, the one of uts has failed and
\* prepareProcess has returned the error with the two binds in place
Wit_C13 ==
    /\ InProcess
    /\ pc = "idle"
    /\ ret = "err"
    /\ Len(mtab) > 1
    /\ Len(Only(trace, {"bindNS"})) = Len(NsKinds)
    /\ trace[Len(trace)].path = ConfiguredPath(runtime.BindNS, "uts")
    /\ trace[Len(trace)].res = "err"

-----------------------------------------------------------------------------
(* C14 *)

\* the kind of link an interface asks for: a peer without a kind means veth
KindOf(iface) ==
    IF iface.Add = "" /\ iface.Peer # "" THEN "veth" ELSE iface.Add

\* an interface that passes the two validations
IsValid(iface) ==
    /\ iface.Name # ""
    /\ ~(KindOf(iface) = "veth" /\ iface.Peer = "")

\* an interface whose link is created in the root namespace and then moved
ViaRoot(iface) == iface.CreateInRoot \/ KindOf(iface) = "veth"

\* the netlink calls C15, C16 and C17 give one interface, for the process
IfaceSteps(iface, process) ==
    IF ~IsValid(iface) THEN <<>>
    ELSE IF KindOf(iface) = ""
    THEN <<Net("LinkByName", iface.Name, "root", "", "", "?"),
           Net("LinkSetNsPid", iface.Name, "pid" \o ToString(process),
               "", "", "?")>>
    ELSE IF ViaRoot(iface)
    THEN <<Net("LinkAdd", iface.Name, "root", KindOf(iface),
               IF KindOf(iface) = "veth" THEN iface.Peer ELSE "", "?"),
           Net("LinkSetNsPid", iface.Name, "pid" \o ToString(process),
               "", "", "?")>>
    ELSE <<Net("LinkAdd", iface.Name, "pid" \o ToString(process),
               KindOf(iface), "", "?")>>

\* the netlink calls of a list of interfaces, up to its first invalid one
RECURSIVE InterfacesPlan(_, _)
InterfacesPlan(ifaces, process) ==
    IF ifaces = <<>> \/ ~IsValid(Head(ifaces)) THEN <<>>
    ELSE IfaceSteps(Head(ifaces), process)
             \o InterfacesPlan(Tail(ifaces), process)

\* the netlink calls of the current call, in order
LinkTrace == Only(trace, LinkOps)

\* the name n is moved by a netlink call of the trace after position k
MovedAfter(k, n) ==
    \E j \in (k + 1)..Len(trace) :
        /\ trace[j].op = "LinkSetNsPid"
        /\ trace[j].name = n
        /\ trace[j].res = "ok"

\* C14: the netlink calls of prepareProcess are a prefix of the calls of
\* its interfaces taken in order up to the first invalid interface; a call
\* that fails is the last entry of the trace and prepareProcess has returned
\* the error; when every call up to an invalid interface has succeeded
\* prepareProcess has returned the error as well; so nothing is called
\* for a later interface. Nothing is rolled back: a link the call created is
\* still in the namespace it was created in (or in the namespace of pid once
\* moved), and a link the call moved is still in the namespace of pid.
Thm_C14 ==
    InProcess =>
        LET plan == InterfacesPlan(runtime.Interfaces, pid)
        IN  /\ Len(LinkTrace) <= Len(plan)
            /\ \A i \in 1..Len(LinkTrace) : CallOf(LinkTrace[i]) = plan[i]
            /\ \A k \in 1..Len(trace) :
                (trace[k].op \in LinkOps /\ trace[k].res # "ok") =>
                    /\ k = Len(trace)
                    /\ pc = "idle"
                    /\ ret = "err"
            /\ ((\E i \in 1..Len(runtime.Interfaces) :
                    ~IsValid(runtime.Interfaces[i]))
                  /\ Len(LinkTrace) = Len(plan)
                  /\ \A i \in 1..Len(LinkTrace) : LinkTrace[i].res = "ok") =>
                    /\ trace = LinkTrace
                    /\ pc = "idle"
                    /\ ret = "err"
            /\ \A k \in 1..Len(trace) :
                (trace[k].op = "LinkAdd" /\ trace[k].res = "ok") =>
                    IF MovedAfter(k, trace[k].name)
                    THEN trace[k].name \in LinkNames(links, NsPid(pid))
                    ELSE trace[k].name \in LinkNames(links, trace[k].ns)
            /\ \A k \in 1..Len(trace) :
                (trace[k].op = "LinkSetNsPid" /\ trace[k].res = "ok") =>
                    trace[k].name \in LinkNames(links, NsPid(pid))

\* the first interface is in place, the link of the second was created in
\* the root namespace and its move has failed: prepareProcess has returned
\* the error and both links are where the calls left them
Wit_C14 ==
    /\ InProcess
    /\ pc = "idle"
    /\ ret = "err"
    /\ Len(trace) > 2
    /\ trace[Len(trace)].op = "LinkSetNsPid"
    /\ trace[Len(trace)].res = "err"
    /\ trace[Len(trace) - 1].op = "LinkAdd"
    /\ trace[Len(trace)].name \in LinkNames(links, RootNs)
    /\ trace[1].name \in LinkNames(links, NsPid(pid))

-----------------------------------------------------------------------------
(* C15 *)

\* the number of netlink calls of the interfaces before the i-th
RECURSIVE CallsBefore(_, _, _)
CallsBefore(ifaces, i, process) ==
    IF i <= 1 THEN 0
    ELSE CallsBefore(ifaces, i - 1, process)
             + Len(IfaceSteps(ifaces[i - 1], process))

\* C15: for an interface with an empty name (whatever its other fields) and
\* for an interface of kind veth without a peer, prepareProcess makes no
\* netlink call: the netlink calls of the trace are at most those of the
\* interfaces before it, none of them carries an empty name or creates a
\* veth without a peer, and once the calls of the interfaces before it have
\* all succeeded prepareProcess has returned the error.
Thm_C15 ==
    InProcess =>
        \A i \in 1..Len(runtime.Interfaces) :
            LET iface == runtime.Interfaces[i]
                before == CallsBefore(runtime.Interfaces, i, pid)
            IN  (iface.Name = "" \/ (iface.Add = "veth" /\ iface.Peer = ""))
                =>
                /\ Len(LinkTrace) <= before
                /\ \A k \in 1..Len(LinkTrace) :
                    /\ LinkTrace[k].name # ""
                    /\ ~(LinkTrace[k].type = "veth"
                            /\ LinkTrace[k].peer = "")
                /\ (Len(LinkTrace) = before
                      /\ (\A j \in 1..(i - 1) :
                              IsValid(runtime.Interfaces[j]))
                      /\ \A k \in 1..Len(LinkTrace) :
                              LinkTrace[k].res = "ok") =>
                        /\ pc = "idle"
                        /\ ret = "err"
                        /\ trace = LinkTrace

\* the second interface is a veth without a peer: the calls of the first
\* have succeeded and prepareProcess has returned the error without a call
\* for the second
Wit_C15 ==
    /\ InProcess
    /\ pc = "idle"
    /\ ret = "err"
    /\ Len(runtime.Interfaces) = 2
    /\ runtime.Interfaces[2].Name # ""
    /\ runtime.Interfaces[2].Add = "veth"
    /\ runtime.Interfaces[2].Peer = ""
    /\ trace # <<>>
    /\ \A k \in 1..Len(trace) :
        trace[k].res = "ok" /\ trace[k].name = runtime.Interfaces[1].Name

-----------------------------------------------------------------------------
(* C16 *)

Min(a, b) == IF a < b THEN a ELSE b

\* the netlink calls the current call has issued for its i-th interface
CallsFor(i) ==
    LET before == CallsBefore(runtime.Interfaces, i, pid)
        mine   == Len(IfaceSteps(runtime.Interfaces[i], pid))
    IN  IF \E j \in 1..(i - 1) : ~IsValid(runtime.Interfaces[j]) THEN <<>>
        ELSE SubSeq(LinkTrace, before + 1, Min(Len(LinkTrace), before + mine))

\* the i-th interface is the only one of the list with its name
OnlyOfItsName(i) ==
    \A j \in 1..Len(runtime.Interfaces) :
        runtime.Interfaces[j].Name = runtime.Interfaces[i].Name => j = i

\* C16: for a valid interface to be created (a kind given, or a peer given
\* and so kind veth): when createInRoot is set or the kind is veth, the
\* first netlink call for it is the LinkAdd of its name in the root
\* namespace, the move into the namespace of pid is issued only after that
\* LinkAdd succeeded, and the link is in the root namespace from the
\* creation until the move succeeds and in the namespace of pid from then
\* on; otherwise the only netlink call for it is the LinkAdd of its name in
\* the namespace of pid, where the link is once that LinkAdd succeeded, and
\* no move is issued for it.
Thm_C16 ==
    InProcess =>
        \A i \in 1..Len(runtime.Interfaces) :
            LET iface == runtime.Interfaces[i]
                mine  == CallsFor(i)
                kind  == KindOf(iface)
            IN  (IsValid(iface) /\ kind # "" /\ mine # <<>>) =>
                    IF iface.CreateInRoot \/ kind = "veth"
                    THEN /\ mine[1].op = "LinkAdd"
                         /\ mine[1].name = iface.Name
                         /\ mine[1].ns = RootNs
                         /\ mine[1].type = kind
                         /\ Len(mine) > 1 =>
                             /\ mine[1].res = "ok"
                             /\ mine[2].op = "LinkSetNsPid"
                             /\ mine[2].name = iface.Name
                             /\ mine[2].ns = NsPid(pid)
                         /\ (Len(mine) = 1 /\ mine[1].res = "ok") =>
                             /\ pc = "link_move"
                             /\ idx = i
                             /\ iface.Name \in LinkNames(links, RootNs)
                         /\ (Len(mine) > 1 /\ mine[2].res # "ok") =>
                             iface.Name \in LinkNames(links, RootNs)
                         /\ (Len(mine) > 1 /\ mine[2].res = "ok"
                                /\ OnlyOfItsName(i)) =>
                             /\ iface.Name \in LinkNames(links, NsPid(pid))
                             /\ iface.Name \notin LinkNames(links, RootNs)
                    ELSE /\ Len(mine) = 1
                         /\ mine[1].op = "LinkAdd"
                         /\ mine[1].name = iface.Name
                         /\ mine[1].ns = NsPid(pid)
                         /\ mine[1].type = kind
                         /\ mine[1].res = "ok" =>
                             /\ iface.Name \in LinkNames(links, NsPid(pid))
                             /\ ~(pc = "link_move" /\ idx = i)

\* a veth named by its peer alone has been created in the root namespace
\* and moved, and a link created directly in the namespace of pid follows
Wit_C16 ==
    /\ InProcess
    /\ Len(runtime.Interfaces) = 2
    /\ runtime.Interfaces[1].Add = ""
    /\ runtime.Interfaces[1].Peer # ""
    /\ ~runtime.Interfaces[2].CreateInRoot
    /\ Len(LinkTrace) = 3
    /\ LinkTrace[1].op = "LinkAdd" /\ LinkTrace[1].type = "veth"
    /\ LinkTrace[1].ns = RootNs
    /\ LinkTrace[2].op = "LinkSetNsPid" /\ LinkTrace[2].res = "ok"
    /\ LinkTrace[3].op = "LinkAdd" /\ LinkTrace[3].ns = NsPid(pid)
    /\ LinkTrace[3].res = "ok"

-----------------------------------------------------------------------------
(* C17 *)

\* C17: for a named interface without kind and without peer, whatever its
\* createInRoot, prepareProcess issues no LinkAdd: its first netlink call
\* for it is the LinkByName of its name in the root namespace; when that
\* fails it is the last entry of the trace, prepareProcess has returned the
\* error and no move was issued; when it succeeds the link is in the root
\* namespace and the next netlink call is the move of that name into the
\* namespace of pid, where the link is once the move succeeded.
Thm_C17 ==
    InProcess =>
        \A i \in 1..Len(runtime.Interfaces) :
            LET iface == runtime.Interfaces[i]
                mine  == CallsFor(i)
            IN  (iface.Name # "" /\ iface.Add = "" /\ iface.Peer = ""
                    /\ mine # <<>>) =>
                    /\ \A k \in 1..Len(mine) : mine[k].op # "LinkAdd"
                    /\ mine[1].op = "LinkByName"
                    /\ mine[1].name = iface.Name
                    /\ mine[1].ns = RootNs
                    /\ mine[1].res # "ok" =>
                        /\ Len(mine) = 1
                        /\ trace[Len(trace)] = mine[1]
                        /\ pc = "idle"
                        /\ ret = "err"
                    /\ (mine[1].res = "ok" /\ Len(mine) = 1) =>
                        /\ pc = "link_move"
                        /\ idx = i
                        /\ iface.Name \in LinkNames(links, RootNs)
                    /\ Len(mine) > 1 =>
                        /\ mine[1].res = "ok"
                        /\ mine[2].op = "LinkSetNsPid"
                        /\ mine[2].name = iface.Name
                        /\ mine[2].ns = NsPid(pid)
                        /\ mine[2].res = "ok" =>
                            iface.Name \in LinkNames(links, NsPid(pid))

\* an existing link was looked up and moved for an interface that does not
\* set createInRoot
Wit_C17 ==
    /\ InProcess
    /\ runtime.Interfaces # <<>>
    /\ runtime.Interfaces[1].Add = ""
    /\ runtime.Interfaces[1].Peer = ""
    /\ ~runtime.Interfaces[1].CreateInRoot
    /\ Len(LinkTrace) > 1
    /\ LinkTrace[1].op = "LinkByName"
    /\ LinkTrace[2].op = "LinkSetNsPid"
    /\ LinkTrace[2].res = "ok"
    /\ runtime.Interfaces[1].Name \in LinkNames(links, NsPid(pid))
    /\ runtime.Interfaces[1].Name \notin LinkNames(links, RootNs)

-----------------------------------------------------------------------------
(* C18 *)

\* a host state, or the mark that a run alone cannot give the recorded
\* results
HostState(D, F, M, L) ==
    [ok |-> TRUE, dirs |-> D, files |-> F, mtab |-> M, links |-> L]

NoHostState ==
    [ok |-> FALSE, dirs |-> {}, files |-> {}, mtab |-> <<>>, links |-> {}]

\* the host now
Host == HostState(dirs, files, mtab, links)

\* the host after the call e of prepareFilesystem with the result e.res
AfterFs(S, e) ==
    LET outs == {o \in SysOutcomes(e, S.dirs, S.mtab) : o.res = e.res}
    IN  IF ~S.ok \/ outs = {} THEN NoHostState
        ELSE LET o == CHOOSE x \in outs : TRUE
             IN  HostState(o.dirs, S.files, o.mtab, S.links)

\* the host after the entry e of a trace of prepareProcess
AfterProc(S, e) ==
    IF e.op = "bindNS" THEN S
    ELSE LET outs == {o \in ProcOutcomes(e, S.dirs, S.files, S.mtab,
                                          S.links) : o.res = e.res}
         IN  IF ~S.ok \/ outs = {} THEN NoHostState
             ELSE LET o == CHOOSE x \in outs : TRUE
                  IN  HostState(o.dirs, o.files, o.mtab, o.links)

RECURSIVE ReplayFs(_, _)
ReplayFs(S, tr) ==
    IF tr = <<>> THEN S ELSE ReplayFs(AfterFs(S, Head(tr)), Tail(tr))

RECURSIVE ReplayProc(_, _)
ReplayProc(S, tr) ==
    IF tr = <<>> THEN S ELSE ReplayProc(AfterProc(S, Head(tr)), Tail(tr))

\* the system calls of the declared mounts from index i on, all succeeding
RECURSIVE MountCalls(_, _)
MountCalls(rt, i) ==
    IF i > Len(rt.Mounts) THEN <<>>
    ELSE <<Entry(mountMkdirAll(rt.Mounts[i]), "ok"),
           Entry(mountMount(rt.Mounts[i]), "ok")>> \o MountCalls(rt, i + 1)

\* the system calls of a prepareFilesystem that returned nil with the
\* strategy strat
SuccessTrace(rt, p, strat) ==
    MountCalls(rt, 1)
        \o [j \in 1..Len(rt.Mkdir) |-> Entry(mkdirMkdirAll(rt.Mkdir[j]), "ok")]
        \o (IF strat = "ro"
            THEN <<Entry(statLower(p), "notexist"), Entry(roMount(p), "ok")>>
            ELSE <<Entry(statLower(p), "ok"), Entry(rwTmpfs(p), "ok"),
                   Entry(rwPrivate(p), "ok"), Entry(rwUpper(p), "ok"),
                   Entry(rwWork(p), "ok"), Entry(rwOverlay(p), "ok")>>)

\* the host as the preparation x would have it had it run alone from
\* ConcurrentHost with the results it has got so far
Alone(x) ==
    LET S0 == HostState(ConcurrentHost.dirs, ConcurrentHost.files,
                        ConcurrentHost.mtab, ConcurrentHost.links)
    IN  IF x.call = "prepareProcess"
        THEN ReplayProc(ReplayFs(S0, SuccessTrace(x.runtime, x.path,
                                                  x.prev.strategy)),
                        x.trace)
        ELSE ReplayFs(S0, x.trace)

FsPositions ==
    {"mount_mkdirall", "mount_mount", "mkdir_mkdirall", "stat", "ro_mount",
     "rw_tmpfs", "rw_private", "rw_upper", "rw_work", "rw_overlay"}

ProcPositions ==
    {"link_add", "link_byname", "link_move", "bind_mkdirall", "bind_create",
     "bind_close", "bind_mount"}

\* the system call the preparation x is about to issue
PendingCall(x) ==
    CASE x.pc = "mount_mkdirall" -> mountMkdirAll(x.runtime.Mounts[x.idx])
      [] x.pc = "mount_mount"    -> mountMount(x.runtime.Mounts[x.idx])
      [] x.pc = "mkdir_mkdirall" -> mkdirMkdirAll(x.runtime.Mkdir[x.idx])
      [] x.pc = "stat"           -> statLower(x.path)
      [] x.pc = "ro_mount"       -> roMount(x.path)
      [] x.pc = "rw_tmpfs"       -> rwTmpfs(x.path)
      [] x.pc = "rw_private"     -> rwPrivate(x.path)
      [] x.pc = "rw_upper"       -> rwUpper(x.path)
      [] x.pc = "rw_work"        -> rwWork(x.path)
      [] x.pc = "rw_overlay"     -> rwOverlay(x.path)
      [] x.pc = "link_add"       ->
            linkAdd(normalise(x.runtime.Interfaces[x.idx]), x.pid)
      [] x.pc = "link_byname"    -> linkByName(x.runtime.Interfaces[x.idx])
      [] x.pc = "link_move"      ->
            linkSetNsPid(x.runtime.Interfaces[x.idx], x.pid)
      [] x.pc = "bind_mkdirall"  -> bindMkdirAll(binds(x.runtime)[x.idx])
      [] x.pc = "bind_create"    -> bindCreate(binds(x.runtime)[x.idx])
      [] x.pc = "bind_close"     -> bindClose(binds(x.runtime)[x.idx])
      [] x.pc = "bind_mount"     -> bindMount(binds(x.runtime)[x.idx], x.pid)

\* the results the system call of x can have on the host S
Answers(x, S) ==
    IF x.pc \in FsPositions
    THEN {o.res : o \in SysOutcomes(PendingCall(x), S.dirs, S.mtab)}
    ELSE IF x.pc \in ProcPositions
    THEN {o.res : o \in ProcOutcomes(PendingCall(x), S.dirs, S.files,
                                     S.mtab, S.links)}
    ELSE {}

\* the names of the links the interfaces of x name
NamesOf(x) ==
    {x.runtime.Interfaces[i].Name : i \in 1..Len(x.runtime.Interfaces)}

\* the names of the peer ends the interfaces of x name
PeersOf(x) ==
    {x.runtime.Interfaces[i].Peer : i \in 1..Len(x.runtime.Interfaces)}
        \ {""}

\* the host paths x is configured with: its state path, the destinations of
\* its mounts, its directories and its namespace bind paths
HostPathsOf(x) ==
    {x.path}
        \cup {x.runtime.Mounts[i].Destination : i \in 1..Len(x.runtime.Mounts)}
        \cup {x.runtime.Mkdir[i] : i \in 1..Len(x.runtime.Mkdir)}
        \cup ({binds(x.runtime)[i].path : i \in 1..Len(NsKinds)} \ {<<>>})

\* the preparation x is not disturbed: the results it has got are results
\* it can get alone, the system call it is about to issue can have the same
\* results as alone, the mounts it would have alone are in the mount table
\* in the same order, and its links are where they would be alone
Undisturbed(x) ==
    LET alone == Alone(x)
        mine  == {alone.mtab[k] : k \in 1..Len(alone.mtab)}
        IsMine(m) == m \in mine
    IN  /\ alone.ok
        /\ Answers(x, Host) = Answers(x, alone)
        /\ SelectSeq(mtab, IsMine) = alone.mtab
        /\ {l \in links : l.name \in NamesOf(x)}
               = {l \in alone.links : l.name \in NamesOf(x)}

\* C18 as claimed: two concurrent preparations whose state paths and
\* interface names are disjoint do not disturb each other, however their
\* system calls interleave.
Claim_C18 ==
    (other.pc # "absent" /\ path # other.path
        /\ NamesOf(Running) \cap NamesOf(other) = {}) =>
        /\ Undisturbed(Running)
        /\ Undisturbed(other)

\* no host path of x lies at or below a host path of y, nor the reverse
Unrelated(x, y) ==
    \A p \in HostPathsOf(x), q \in HostPathsOf(y) :
        ~IsPrefix(p, q) /\ ~IsPrefix(q, p)

\* C18 amended: two concurrent preparations do not disturb each other,
\* however their system calls interleave, when their state paths and
\* interface names are disjoint and moreover no host path either one is
\* configured with (state path, mount destination, mkdir directory,
\* namespace bind path) lies at or below one of the other, and the names of
\* their interfaces and veth peers are all different.
Thm_C18 ==
    (other.pc # "absent"
        /\ Unrelated(Running, other)
        /\ (NamesOf(Running) \cup PeersOf(Running))
               \cap (NamesOf(other) \cup PeersOf(other)) = {}) =>
        /\ Undisturbed(Running)
        /\ Undisturbed(other)

\* both preparations have returned nil from prepareProcess, one of them
\* with a veth moved and the net namespace bound, the other with an
\* existing link moved, and their mounts interleave in the mount table
Wit_C18 ==
    /\ other.pc # "absent"
    /\ InProcess /\ pc = "idle" /\ ret = "nil"
    /\ other.call = "prepareProcess" /\ other.pc = "idle"
    /\ other.ret = "nil"
    /\ Unrelated(Running, other)
    /\ NamesOf(Running) # {}
    /\ NamesOf(other) # {}
    /\ \E i \in 1..Len(mtab) : \E j \in (i + 1)..Len(mtab) :
        \E k \in (j + 1)..Len(mtab) :
            /\ IsPrefix(path, mtab[i].target)
            /\ IsPrefix(other.path, mtab[j].target)
            /\ IsPrefix(path, mtab[k].target)

-----------------------------------------------------------------------------
(* C19 *)

Upper == FilepathJoin(Tmp, "upper")

Work == FilepathJoin(Tmp, "work")

\* the position in tr of the successful call of operation op on the path
\* p, 0 when there is none
OkAt(tr, op, p) ==
    LET at == {k \in 1..Len(tr) :
                  tr[k].op = op /\ tr[k].path = p /\ tr[k].res = "ok"
                      /\ BitAnd(tr[k].flags, MS_REMOUNT) = 0}
    IN  IF at = {} THEN 0 ELSE CHOOSE k \in at : \A j \in at : k <= j

\* C19: in every call of prepareFilesystem that takes the writable
\* strategy (the first on a state path, a second one without a cleanup in
\* between, with or without an upper left in tmp): when upper is about to
\* be created tmp is the empty tmpfs this call has mounted; upper and then
\* work are created in it by this call, after that mount and before the
\* overlay mount; when the overlay is about to be mounted tmp holds upper
\* and work and nothing else, both empty; and the overlay this call mounts
\* shows the content of lower and nothing left from an earlier cycle.
Thm_C19 ==
    (InPrepare /\ strategy = "rw") =>
        LET tmpfsAt   == OkAt(trace, "Mount", Tmp)
            upperAt   == OkAt(trace, "Mkdir", Upper)
            workAt    == OkAt(trace, "Mkdir", Work)
            overlayAt == OkAt(trace, "Mount", Rootfs)
        IN  /\ pc \in {"rw_upper", "rw_work", "rw_overlay"} =>
                /\ tmpfsAt > 0
                /\ IsMountPoint(mtab, Tmp)
                /\ mtab[TopMount(mtab, Tmp)].fstype = "tmpfs"
                /\ mtab[TopMount(mtab, Tmp)].source = "tmpfs"
            /\ pc = "rw_upper" => StrictlyUnder(dirs, Tmp) = {}
            /\ pc = "rw_work" => StrictlyUnder(dirs, Tmp) = {Upper}
            /\ pc = "rw_overlay" =>
                /\ StrictlyUnder(dirs, Tmp) = {Upper, Work}
                /\ 0 < tmpfsAt /\ tmpfsAt < upperAt /\ upperAt < workAt
                /\ overlayAt = 0
            /\ overlayAt > 0 =>
                /\ 0 < tmpfsAt /\ tmpfsAt < upperAt /\ upperAt < workAt
                /\ workAt < overlayAt
                /\ StrictlyUnder(dirs, Tmp) = {Upper, Work}
                /\ StrictlyUnder(dirs, Rootfs)
                       = Relocate(dirs, Lower, Rootfs)

\* a second writable prepareFilesystem on the state path has succeeded
\* with no cleanup since the first: the tmpfs of the first cycle, with its
\* upper and work, lies hidden under the tmpfs of the second
Wit_C19 ==
    /\ InPrepare
    /\ strategy = "rw"
    /\ pc = "idle"
    /\ ret = "nil"
    /\ prev.call = "prepareFilesystem"
    /\ prev.strategy = "rw"
    /\ prev.ret = "nil"
    /\ Upper \in mtab[TopMount(mtab, Tmp)].hidden
    /\ Work \in mtab[TopMount(mtab, Tmp)].hidden

-----------------------------------------------------------------------------
(* C20 *)

\* cleanup, after a prepareFilesystem that returned nil
AfterPrepared ==
    InCleanup /\ prev.call = "prepareFilesystem" /\ prev.ret = "nil"

\* cleanup has probed lower and done nothing else yet
JustProbed ==
    InCleanup /\ Len(trace) = 1 /\ pc \in {"cro_unmount", "crw_remove_rootfs"}

\* a tmpfs is mounted on tmp
TmpfsOnTmp ==
    \E k \in 1..Len(mtab) : mtab[k].target = Tmp /\ mtab[k].fstype = "tmpfs"

\* the teardown of a strategy
TeardownOf(s, p) ==
    IF s = "rw" THEN WritableTeardown(p) ELSE ReadOnlyTeardown(p)

\* C20 as claimed: after a successful prepare, when lower is gone at
\* cleanup's probe after the writable strategy cleanup selects the
\* read-only teardown, when lower is there after the read-only strategy it
\* selects the writable teardown, and when lower exists at cleanup's probe
\* exactly if it existed at prepare's, cleanup selects the teardown of the
\* strategy prepare used.
Claim_C20 ==
    (AfterPrepared /\ JustProbed) =>
        /\ (prev.strategy = "rw" /\ Lower \notin dirs) => strategy = "ro"
        /\ (prev.strategy = "ro" /\ Lower \in dirs) => strategy = "rw"
        /\ (prev.strategy = "rw" <=> Lower \in dirs)
               => strategy = prev.strategy

\* C20 amended: cleanup probes lower again and follows the answer. After a
\* successful writable prepare, a lower found missing makes cleanup issue
\* the unmount of rootfs and nothing else, the tmpfs staying mounted on tmp;
\* after a successful read-only prepare, a lower found present makes
\* cleanup run the writable teardown, whose RemoveAll calls go through the
\* self-bound rootfs and tmp; when the probe answers as the one of prepare
\* did (lower exists, lower does not exist) cleanup applies the teardown of
\* the strategy prepare used; and when the probe fails for another reason
\* cleanup applies the read-only teardown, also after a writable prepare
\* whose lower is still there.
Thm_C20 ==
    AfterPrepared =>
        /\ JustProbed =>
            /\ probe = "ok" => Lower \in dirs
            /\ probe = "notexist" => Lower \notin dirs
            /\ (strategy = "rw" /\ prev.strategy = "ro") =>
                /\ IsMountPoint(mtab, Rootfs)
                /\ mtab[TopMount(mtab, Rootfs)].bind
        /\ (prev.strategy = "rw" /\ probe = "notexist") =>
            /\ strategy = "ro"
            /\ TmpfsOnTmp
            /\ HasReturned => Proj(AfterStat(trace)) = ReadOnlyTeardown(path)
        /\ (prev.strategy = "ro" /\ probe = "ok") =>
            /\ strategy = "rw"
            /\ HasReturned => Proj(AfterStat(trace)) = WritableTeardown(path)
        /\ (probe = prev.probe /\ probe \in {"ok", "notexist"}) =>
            /\ strategy = prev.strategy
            /\ HasReturned =>
                Proj(AfterStat(trace)) = TeardownOf(prev.strategy, path)
        /\ probe = "err" =>
            /\ strategy = "ro"
            /\ HasReturned => Proj(AfterStat(trace)) = ReadOnlyTeardown(path)

\* lower was removed after a successful writable prepare: cleanup has
\* returned after the unmount of rootfs, and the tmpfs is still on tmp
Wit_C20 ==
    /\ AfterPrepared
    /\ HasReturned
    /\ prev.strategy = "rw"
    /\ probe = "notexist"
    /\ Len(trace) = 2
    /\ trace[2].op = "Unmount"
    /\ trace[2].res = "ok"
    /\ TmpfsOnTmp
    /\ ~IsMountPoint(mtab, Rootfs)

-----------------------------------------------------------------------------
(* C21 *)

\* cleanup of a container whose prepareFilesystem returned nil (and whose
\* prepareProcess may have run after it)
Prepared ==
    /\ InCleanup
    /\ \/ prev.call = "prepareFilesystem" /\ prev.ret = "nil"
       \/ prev.call = "prepareProcess"

\* every unmount the call issued succeeded
UnmountsOk(tr) ==
    \A k \in 1..Len(tr) : tr[k].op = "Unmount" => tr[k].res = "ok"

\* the positions of the unmounts of p in a trace
UnmountsOf(tr, p) ==
    {k \in 1..Len(tr) : tr[k].op = "Unmount" /\ tr[k].path = p}

OverlayOnRootfs ==
    \E k \in 1..Len(mtab) :
        mtab[k].target = Rootfs /\ mtab[k].fstype = "overlay"

\* C21 as claimed: after a successful prepareFilesystem, a cleanup on the
\* same state path whose unmounts all succeeded leaves neither rootfs nor
\* tmp a mount point, and in writable mode (lower exists) it has unmounted
\* rootfs before tmp.
Claim_C21 ==
    (Prepared /\ HasReturned /\ UnmountsOk(trace)) =>
        /\ ~IsMountPoint(mtab, Rootfs)
        /\ ~IsMountPoint(mtab, Tmp)
        /\ Lower \in dirs =>
               \E i \in UnmountsOf(trace, Rootfs) :
                   \E j \in UnmountsOf(trace, Tmp) : i < j

\* C21 amended: after a successful prepareFilesystem, a cleanup on the same
\* state path whose probe of lower answered (exists, does not exist) and
\* whose unmounts all succeeded leaves neither rootfs nor tmp a mount
\* point; the writable teardown issues exactly one unmount of rootfs and
\* then exactly one of tmp, and once the first succeeded the overlay is
\* gone from rootfs while the tmpfs is still on tmp. When the probe fails
\* with another error while lower exists, cleanup unmounts the overlay only
\* and the tmpfs stays mounted on tmp.
Thm_C21 ==
    Prepared =>
        /\ (HasReturned /\ UnmountsOk(trace) /\ probe # "err") =>
            /\ ~IsMountPoint(mtab, Rootfs)
            /\ ~IsMountPoint(mtab, Tmp)
        /\ (HasReturned /\ strategy = "rw") =>
            /\ Cardinality(UnmountsOf(trace, Rootfs)) = 1
            /\ Cardinality(UnmountsOf(trace, Tmp)) = 1
            /\ \A i \in UnmountsOf(trace, Rootfs) :
                   \A j \in UnmountsOf(trace, Tmp) : i < j
            /\ \A k \in 1..Len(trace) :
                   trace[k].op = "Unmount" => trace[k].path \in {Rootfs, Tmp}
        /\ (strategy = "rw" /\ pc \in {"crw_remove_tmp", "crw_unmount_tmp"}
                /\ UnmountsOk(trace)) =>
            /\ ~OverlayOnRootfs
            /\ ~IsMountPoint(mtab, Rootfs)
            /\ TmpfsOnTmp
        /\ (strategy = "rw" /\ pc = "crw_unmount_rootfs") =>
            /\ OverlayOnRootfs
            /\ TmpfsOnTmp
        /\ (HasReturned /\ probe = "err" /\ Lower \in dirs
                /\ UnmountsOk(trace)) =>
            /\ ~IsMountPoint(mtab, Rootfs)
            /\ TmpfsOnTmp

\* C21 witness: the writable teardown of a prepared container has
\* returned, both unmounts succeeded, rootfs first, and neither rootfs nor
\* tmp is a mount point
Wit_C21 ==
    /\ Prepared
    /\ HasReturned
    /\ strategy = "rw"
    /\ prev.call = "prepareProcess"
    /\ Len(trace) = 5
    /\ trace[3] = Entry(unmountRootfs(path), "ok")
    /\ trace[5] = Entry(unmountTmp(path), "ok")
    /\ ~IsMountPoint(mtab, Rootfs)
    /\ ~IsMountPoint(mtab, Tmp)
    /\ Len(mtab) > 0

-----------------------------------------------------------------------------
(* C22 *)

\* cleanup after a prepareFilesystem that selected a rootfs strategy and
\* returned the error of one of its steps
AfterFailedStrategy ==
    /\ InCleanup
    /\ prev.call = "prepareFilesystem"
    /\ prev.ret = "err"
    /\ prev.strategy \in {"ro", "rw"}

\* the unmounts that failed
FailedUnmounts(tr) ==
    {k \in 1..Len(tr) : tr[k].op = "Unmount" /\ tr[k].res = "err"}

\* the unmounts that failed had nothing to undo: their target is no mount
\* point (cleanup mounts nothing and unmounts a target once)
NothingToUndo(tr) ==
    \A k \in FailedUnmounts(tr) : ~IsMountPoint(mtab, tr[k].path)

\* C22 as claimed: when prepareFilesystem failed at a step of the rootfs
\* strategy and cleanup has run after it, the only failures being those of
\* steps with nothing to undo, no mount remains on rootfs or tmp and
\* cleanup has returned without an error.
Claim_C22 ==
    (AfterFailedStrategy /\ HasReturned /\ NothingToUndo(trace)) =>
        /\ ret = "void"
        /\ ~IsMountPoint(mtab, Rootfs)
        /\ ~IsMountPoint(mtab, Tmp)

\* C22 amended: when prepareFilesystem failed at a step of the rootfs
\* strategy, the cleanup after it returns without an error whatever its
\* steps answer and runs its whole teardown; when its probe of lower
\* answered, a mount remains on rootfs or tmp only if cleanup issued the
\* unmount of that mount and the unmount failed; when its probe failed with
\* another error, cleanup issues the unmount of rootfs only and the tmpfs a
\* failed writable strategy left on tmp stays.
Thm_C22 ==
    AfterFailedStrategy =>
        /\ ret \in {"running", "void"}
        /\ HasReturned =>
            /\ ret = "void"
            /\ Proj(AfterStat(trace)) = TeardownOf(strategy, path)
            /\ ~OverlayOnRootfs
            /\ probe # "err" =>
                /\ strategy = prev.strategy
                /\ \A p \in {Rootfs, Tmp} :
                       IsMountPoint(mtab, p) =>
                           \E k \in FailedUnmounts(trace) : trace[k].path = p
                /\ NothingToUndo(trace) =>
                       /\ ~IsMountPoint(mtab, Rootfs)
                       /\ ~IsMountPoint(mtab, Tmp)
            /\ probe = "err" =>
                /\ strategy = "ro"
                /\ UnmountsOf(trace, Tmp) = {}
        /\ (pc = "cleanup_stat" /\ prev.strategy = "ro") =>
               /\ ~IsMountPoint(mtab, Rootfs)
               /\ ~IsMountPoint(mtab, Tmp)
        /\ (pc = "cleanup_stat" /\ prev.strategy = "rw") =>
               ~IsMountPoint(mtab, Rootfs)

\* C22 witness: the writable strategy failed after its tmpfs mount; the
\* cleanup after it has returned, its unmount of rootfs failed with nothing
\* to undo, its unmount of tmp succeeded, and no mount is left
Wit_C22 ==
    /\ AfterFailedStrategy
    /\ HasReturned
    /\ prev.strategy = "rw"
    /\ probe = "ok"
    /\ Len(trace) = 5
    /\ trace[3] = Entry(unmountRootfs(path), "err")
    /\ trace[5] = Entry(unmountTmp(path), "ok")
    /\ ~IsMountPoint(mtab, Rootfs)
    /\ ~IsMountPoint(mtab, Tmp)

-----------------------------------------------------------------------------
(* C23 *)

NotOfContainer(m) == m.target \notin {Rootfs, Tmp}

\* the mounts of M that are neither on rootfs nor on tmp, in mount order
MountsElsewhere(M) == SelectSeq(M, NotOfContainer)

\* the directories of D that are neither rootfs, tmp nor below them
DirsElsewhere(D) == {d \in D : ~IsPrefix(Rootfs, d) /\ ~IsPrefix(Tmp, d)}

\* the declared mounts of rt that M holds
DeclaredIn(rt, M) ==
    {k \in 1..Len(M) :
        \E i \in 1..Len(rt.Mounts) :
            /\ M[k].target = rt.Mounts[i].Destination
            /\ M[k].source = rt.Mounts[i].Source
            /\ M[k].fstype = rt.Mounts[i].Type}

\* the namespace binds M holds
NsBindsIn(M) ==
    {k \in 1..Len(M) :
        \E j \in 1..Len(NsKinds) :
            M[k].source = nsSource(NsKinds[j], pid)}

-----------------------------------------------------------------------------
(* C24 *)

\* the entries of the namespace binder: invocations of bindNS and their
\* system calls
BinderAt(tr) == {k \in 1..Len(tr) : tr[k].op \notin LinkOps}

\* an interface of the list has failed: one that does not pass the
\* validations, or one with a netlink call that failed
InterfaceFailed ==
    \/ \E i \in 1..Len(runtime.Interfaces) : ~IsValid(runtime.Interfaces[i])
    \/ \E k \in 1..Len(trace) :
           trace[k].op \in LinkOps /\ trace[k].res # "ok"

\* every interface of the list has been processed with success: all are
\* valid, and the netlink calls of all of them were issued and succeeded
InterfacesDone(tr) ==
    /\ \A i \in 1..Len(runtime.Interfaces) : IsValid(runtime.Interfaces[i])
    /\ Len(Only(tr, LinkOps))
           = Len(InterfacesPlan(runtime.Interfaces, pid))
    /\ \A k \in 1..Len(tr) : tr[k].op \in LinkOps => tr[k].res = "ok"

\* C24: in prepareProcess the first invocation of bindNS comes only when
\* every interface of the list has been processed with success before it,
\* and no netlink call comes after it, so that every invocation of bindNS
\* and every system call of the binder is after the last netlink call; when an
\* interface has failed prepareProcess has invoked bindNS for none of the
\* seven kinds, has issued no system call of the binder, and no namespace
\* is bound, not even a configured net.
Thm_C24 ==
    InProcess =>
        /\ \A k \in BinderAt(trace) :
               (\A j \in BinderAt(trace) : k <= j) =>
                   /\ InterfacesDone(SubSeq(trace, 1, k - 1))
                   /\ \A j \in k..Len(trace) : trace[j].op \notin LinkOps
        /\ pc \in {"bind", "bind_mkdirall", "bind_create", "bind_close",
                    "bind_mount"} => InterfacesDone(trace)
        /\ (pc = "idle" /\ ret = "nil") =>
               /\ InterfacesDone(trace)
               /\ Cardinality(BindAt(trace)) = Len(NsKinds)
        /\ InterfaceFailed =>
               /\ BinderAt(trace) = {}
               /\ NsBindsIn(mtab) = {}
               /\ mtab = <<>>
               /\ pc \in {"link_add", "link_byname", "link_move", "idle"}
               /\ pc = "idle" => ret = "err"

\* C24 witness: the first interface is in place, a netlink call of the
\* second one has failed, the net namespace has a configured bind path, and
\* prepareProcess has returned the error without invoking bindNS
Wit_C24 ==
    /\ InProcess
    /\ pc = "idle"
    /\ ret = "err"
    /\ runtime.BindNS.Net # <<>>
    /\ Len(runtime.Interfaces) = 2
    /\ Len(trace) >= 2
    /\ trace[Len(trace)].op \in LinkOps
    /\ trace[Len(trace)].res = "err"
    /\ trace[Len(trace)].name = runtime.Interfaces[2].Name
    /\ trace[1].name = runtime.Interfaces[1].Name
    /\ trace[1].name # trace[Len(trace)].name
    /\ BindAt(trace) = {}
    /\ mtab = <<>>

-----------------------------------------------------------------------------
(* C25 *)

\* prepareProcess has returned nil
ProcessPrepared == InProcess /\ pc = "idle" /\ ret = "nil"

\* the moves of the name n that succeeded, as positions of the trace
MovesOf(n) ==
    {k \in 1..Len(trace) :
        /\ trace[k].op = "LinkSetNsPid"
        /\ trace[k].name = n
        /\ trace[k].res = "ok"}

\* the interfaces of the list that ask for a veth pair
VethAt(ifaces) == {i \in 1..Len(ifaces) : KindOf(ifaces[i]) = "veth"}

\* C25 as claimed: when prepareProcess has returned nil, the link of every
\* interface of the list is in the namespace of pid, no name was moved more
\* than once, and the peer of every veth interface is in the root
\* namespace.
Claim_C25 ==
    ProcessPrepared =>
        /\ \A i \in 1..Len(runtime.Interfaces) :
               /\ runtime.Interfaces[i].Name \in LinkNames(links, NsPid(pid))
               /\ Cardinality(MovesOf(runtime.Interfaces[i].Name)) <= 1
        /\ \A i \in VethAt(runtime.Interfaces) :
               runtime.Interfaces[i].Peer \in LinkNames(links, RootNs)

\* C25 amended: when prepareProcess has returned nil, the link of every
\* interface of the list is in the namespace of pid; a link created in the
\* namespace of pid was not moved, one created in the root namespace or
\* found there was moved exactly once and has left the root namespace (a
\* later veth may have made a peer of its name there); the names
\* of the list are pairwise different; and the peer of a veth interface is
\* in the root namespace unless a later interface of the list names the
\* peer as an existing link, which prepareProcess then has moved into the
\* namespace of pid as well.
Thm_C25 ==
    ProcessPrepared =>
        LET ifaces == runtime.Interfaces
        IN  /\ \A i \in 1..Len(ifaces) :
                   /\ IsValid(ifaces[i])
                   /\ ifaces[i].Name \in LinkNames(links, NsPid(pid))
                   /\ Cardinality(MovesOf(ifaces[i].Name))
                          = IF KindOf(ifaces[i]) = "" \/ ViaRoot(ifaces[i])
                            THEN 1 ELSE 0
                   /\ \A j \in 1..Len(ifaces) :
                          ifaces[j].Name = ifaces[i].Name => j = i
                   /\ ((KindOf(ifaces[i]) = "" \/ ViaRoot(ifaces[i]))
                          /\ ifaces[i].Name \in LinkNames(links, RootNs)) =>
                          \E j \in VethAt(ifaces) :
                              j > i /\ ifaces[j].Peer = ifaces[i].Name
            /\ \A k \in 1..Len(trace) :
                   trace[k].op = "LinkSetNsPid" =>
                       \E i \in 1..Len(ifaces) :
                           ifaces[i].Name = trace[k].name
            /\ \A i \in VethAt(ifaces) :
                   \/ NewLink(ifaces[i].Peer, RootNs, "veth") \in links
                   \/ /\ \E j \in (i + 1)..Len(ifaces) :
                             /\ ifaces[j].Name = ifaces[i].Peer
                             /\ KindOf(ifaces[j]) = ""
                      /\ NewLink(ifaces[i].Peer, NsPid(pid), "veth")
                             \in links
                      /\ Cardinality(MovesOf(ifaces[i].Peer)) = 1

\* C25 witness: prepareProcess has returned nil for a veth pair and an
\* existing device: both links are in the namespace of pid, each moved
\* once, and the peer of the pair is in the root namespace
Wit_C25 ==
    /\ ProcessPrepared
    /\ Len(runtime.Interfaces) = 2
    /\ KindOf(runtime.Interfaces[1]) = "veth"
    /\ KindOf(runtime.Interfaces[2]) = ""
    /\ runtime.Interfaces[2].Name # runtime.Interfaces[1].Peer
    /\ \A i \in 1..2 :
           /\ runtime.Interfaces[i].Name \in LinkNames(links, NsPid(pid))
           /\ Cardinality(MovesOf(runtime.Interfaces[i].Name)) = 1
    /\ NewLink(runtime.Interfaces[1].Peer, RootNs, "veth") \in links

====
